---- MODULE Spec2Model ----
(***************************************************************************)
(* MarketSim: the ClearingHouse ledger, its three settlement routines, the *)
(* miner's gas collection and frame assembly.  f64 amounts are modelled as *)
(* integers (every amount used is a small integer, exact in f64).          *)
(***************************************************************************)
EXTENDS Integers, Sequences, FiniteSets, TLC

VARIABLES
    players,        \* ClearingHouse.players: trader_id -> player record
    gas_fees,       \* ClearingHouse.gas_fees: sequence of per-block totals
    total_tax,      \* ClearingHouse.total_tax
    maker_profits,  \* ClearingHouse.maker_profits, indexed by MakerT + 1
    next_order_id,  \* the counter behind gen_order_id()
    results,        \* the TradeResults update_house is applying
    remaining,      \* PlayerUpdates of results.cross_results not yet iterated
    pc,             \* position of the settlement routine
    cur,            \* the PlayerUpdate the settlement loop is on
    outcome,        \* how the last step on cur ended
    pu_pre,         \* players when the loop reached cur
    uh_pre,         \* total balance and inventory when update_house was entered
    flow,           \* net (payment, volume) of the fills applied to the ledger since update_house was entered
    last,           \* the most recent update_player_order_vol call
    mempool,        \* MemPool.items
    frame,          \* Miner.frame
    mpc,            \* position of the miner task
    size,           \* make_frame's local `size`
    gas_changes,    \* collect_gas's to_update, between collect_gas and apply_gas_fees
    total_gas,      \* collect_gas's total_gas
    tick_pre,       \* players when apply_gas_fees was called
    ticks,          \* miner ticks started so far
    fr_call,        \* the front-run call under study: its inputs and what it returned
    block_num,      \* BlockNum.num
    inv_pc,         \* position of the investor loop
    mk_pc,          \* position of the maker loop
    mk_orders,      \* the (bid, ask) pair maker_new_orders returned, while being submitted
    published,      \* what the last publish_frame returned: "None" or "Some"
    books,          \* order ids entered in the bids and asks books
    lock_owner,     \* who holds each Mutex
    lpc,            \* each thread's position in its sequence of lock operations
    h_call,         \* the ClearingHouse call under study: its arguments, what it returned, the house before it
    h_count,        \* ClearingHouse calls made so far
    bids_book,      \* Book.orders of the bids book
    asks_book,      \* Book.orders of the asks book
    bk_call,        \* the order the books processed last, the books before it and the trades it produced
    bk_count,       \* orders the books have processed so far
    charged         \* how many times each order has been in the frame gas was collected from

vars == <<players, gas_fees, total_tax, maker_profits, next_order_id, results,
          remaining, pc, cur, outcome, pu_pre, uh_pre, flow, last, mempool,
          frame, mpc, size, gas_changes, total_gas, tick_pre, ticks, fr_call,
          block_num, inv_pc, mk_pc, mk_orders, published, books, lock_owner, lpc,
          h_call, h_count, bids_book, asks_book, bk_call, bk_count, charged>>

house_vars == <<players, gas_fees, total_tax, maker_profits>>
settle_vars == <<results, remaining, pc, cur, outcome, pu_pre, uh_pre, flow, last>>
miner_vars == <<mempool, frame, mpc, size, gas_changes, total_gas, tick_pre, ticks>>
sim_vars == <<block_num, inv_pc, mk_pc, mk_orders, published, books>>
lock_vars == <<lock_owner, lpc>>
call_vars == <<h_call, h_count>>
book_vars == <<bids_book, asks_book, bk_call, bk_count>>
gas_vars == <<charged>>
api_vars == <<call_vars, book_vars, gas_vars>>
ext_vars == <<fr_call, sim_vars, lock_vars, api_vars>>

-----------------------------------------------------------------------------
(* Bounds of the model *)

MaxOrderId == 2      \* orders registered before the settlement under study
MaxUpdates == 2      \* PlayerUpdates in a TradeResults
MaxSubmits == 3      \* orders the investor loop submits
MaxTicks == 2        \* ticks of the miner loop
block_size == 2      \* consts.block_size, the configured frame capacity
num_blocks == 0      \* consts.num_blocks, the configured length of the simulation
maker_inv_tax == 1   \* consts.maker_inv_tax, the configured tax per unit of inventory
MaxMakerIds == 4     \* the maker loop draws order ids up to this one
flow_order_offset == 1   \* consts.flow_order_offset, the configured width of a flow order
MaxCalls == 2        \* ClearingHouse calls of the call harness
MaxNumPlayers == 2   \* consts.num_investors and consts.num_makers range over 1..MaxNumPlayers
MaxBookOrders == 3   \* orders the books process

-----------------------------------------------------------------------------
(* Identities *)

INV1 == "INV1"
INV2 == "INV2"
MKR1 == "MKR1"
MKR2 == "MKR2"
MNR1 == "MNR1"
GHOST == "GHOST"
id_check == "N/A"

Registered == {INV1, MKR1, MNR1}

MakerT == {"Aggressive", "RiskAverse", "Random"}

NoUpdate == [payer_id |-> "", payer_order_id |-> 0, vol_filler_id |-> "",
             vol_filler_order_id |-> 0, price |-> 0, volume |-> 0, cancel |-> FALSE]

NoResults == [auction_type |-> "", uniform_price |-> "None", cross_results |-> "None"]

NoCall == [trader_id |-> "", order_id |-> 0, vol_to_add |-> 0, old |-> 0, held |-> FALSE, ok |-> FALSE]

-----------------------------------------------------------------------------
(* Orders and the players' order lists *)

Order_new(t_id, o_t, t_t, e_t, p_l, p_h, p, q, gas, o_id) ==
    [trader_id |-> t_id, order_id |-> o_id, order_type |-> o_t, trade_type |-> t_t,
     ex_type |-> e_t, p_low |-> p_l, p_high |-> p_h, price |-> p, quantity |-> q,
     gas |-> gas]

\* orders.iter().position(|o| o.order_id == o_id); 0 stands for None
position(orders, o_id) ==
    IF \E i \in 1..Len(orders) : orders[i].order_id = o_id
    THEN CHOOSE i \in 1..Len(orders) :
            /\ orders[i].order_id = o_id
            /\ \A j \in 1..(i - 1) : orders[j].order_id # o_id
    ELSE 0

\* Vec::remove(i)
remove(orders, i) == SubSeq(orders, 1, i - 1) \o SubSeq(orders, i + 1, Len(orders))

\* add_order putting the order at the head of the list
add_order_Front(orders, order) == <<order>> \o orders

add_order(orders, order) == Append(orders, order)

\* cancel_order taking the last order off the list, whichever it found
cancel_order_RemovesLast(orders, o_id) ==
    LET i == position(orders, o_id) IN
    IF i # 0 THEN [ok |-> TRUE, orders |-> remove(orders, Len(orders))]
             ELSE [ok |-> FALSE, orders |-> orders]

\* cancel_order answering Ok without taking the order off the list
cancel_order_KeepsOrder(orders, o_id) ==
    [ok |-> position(orders, o_id) # 0, orders |-> orders]

cancel_order(orders, o_id) ==
    LET i == position(orders, o_id) IN
    IF i # 0 THEN [ok |-> TRUE, orders |-> remove(orders, i)]
             ELSE [ok |-> FALSE, orders |-> orders]

\* Miner::update_order_vol: the quantity is changed in place and the order stays
Miner_update_order_vol(orders, o_id, vol_to_add) ==
    LET i == position(orders, o_id) IN
    IF i # 0 THEN [ok |-> TRUE,
                   orders |-> [orders EXCEPT ![i].quantity = @ + vol_to_add]]
             ELSE [ok |-> FALSE, orders |-> orders]

\* Investor and Maker: the order is dropped once its quantity is <= 0
Trader_update_order_vol(orders, o_id, vol_to_add) ==
    LET i == position(orders, o_id) IN
    IF i # 0
    THEN [ok |-> TRUE,
          orders |-> IF orders[i].quantity + vol_to_add <= 0
                     THEN remove(orders, i)
                     ELSE [orders EXCEPT ![i].quantity = @ + vol_to_add]]
    ELSE [ok |-> FALSE, orders |-> orders]

\* dyn Player dispatch of update_order_vol
update_order_vol(player, o_id, vol_to_add) ==
    IF player.player_type = "Miner"
    THEN Miner_update_order_vol(player.orders, o_id, vol_to_add)
    ELSE Trader_update_order_vol(player.orders, o_id, vol_to_add)

-----------------------------------------------------------------------------
(* ClearingHouse operations, as functions of the player map *)

Player_new(p_t, m_t) ==
    [player_type |-> p_t, maker_type |-> m_t, balance |-> 0, inventory |-> 0,
     orders |-> <<>>]

\* Investor::new, Maker::new, Miner::new with the trader id they carry
Investor_new(trader_id) == [trader_id |-> trader_id, player |-> Player_new("Investor", "None")]
Maker_new(trader_id, maker_type) ==
    [trader_id |-> trader_id, player |-> Player_new("Maker", maker_type)]
Miner_new(trader_id) == [trader_id |-> trader_id, player |-> Player_new("Miner", "None")]

\* HashMap::insert in the place of entry().or_insert()
or_insert_Overwrites(ps, id, p) ==
    [i \in DOMAIN ps \cup {id} |-> IF i = id THEN p ELSE ps[i]]

\* players.entry(id).or_insert(p)
or_insert(ps, id, p) ==
    [i \in DOMAIN ps \cup {id} |-> IF i \in DOMAIN ps THEN ps[i] ELSE p]

reg_investor(ps, inv) == or_insert(ps, inv.trader_id, inv.player)
reg_maker(ps, maker) == or_insert(ps, maker.trader_id, maker.player)
reg_miner(ps, miner) == or_insert(ps, miner.trader_id, miner.player)

RECURSIVE reg_n_investors(_, _)
reg_n_investors(ps, investors) ==
    IF investors = <<>> THEN ps
    ELSE reg_n_investors(reg_investor(ps, Head(investors)), Tail(investors))

RECURSIVE reg_n_makers(_, _)
reg_n_makers(ps, makers) ==
    IF makers = <<>> THEN ps
    ELSE reg_n_makers(reg_maker(ps, Head(makers)), Tail(makers))

num_players(ps) == Cardinality(DOMAIN ps)

\* new_order charging the trader one unit for the registration
new_order_ChargesFee(ps, order) ==
    IF order.trader_id \in DOMAIN ps
    THEN [ok |-> TRUE,
          players |-> [ps EXCEPT ![order.trader_id].orders = add_order(@, order),
                                 ![order.trader_id].balance = @ - 1]]
    ELSE [ok |-> FALSE, players |-> ps]

new_order(ps, order) ==
    IF order.trader_id \in DOMAIN ps
    THEN [ok |-> TRUE,
          players |-> [ps EXCEPT ![order.trader_id].orders = add_order(@, order)]]
    ELSE [ok |-> FALSE, players |-> ps]

\* new_orders: the first order of an unknown trader ends the call, the
\* orders before it stay added
RECURSIVE new_orders(_, _)
new_orders(ps, orders) ==
    IF orders = <<>> THEN [ok |-> TRUE, players |-> ps]
    ELSE IF Head(orders).trader_id \in DOMAIN ps
    THEN new_orders([ps EXCEPT ![Head(orders).trader_id].orders = add_order(@, Head(orders))],
                    Tail(orders))
    ELSE [ok |-> FALSE, players |-> ps]

\* Player::update_bal, Player::update_inv, Player::get_bal, Player::get_inv
update_bal(player, to_add) == [player EXCEPT !.balance = @ + to_add]
update_inv(player, to_add) == [player EXCEPT !.inventory = @ + to_add]
get_bal(player) == player.balance
get_inv(player) == player.inventory

update_player_bal(ps, id, bal_to_add) ==
    IF id \in DOMAIN ps
    THEN LET p == update_bal(ps[id], bal_to_add) IN
         [ok |-> TRUE, players |-> [ps EXCEPT ![id] = p], ret |-> get_bal(p)]
    ELSE [ok |-> FALSE, players |-> ps, ret |-> 0]

update_player_inv(ps, id, inv_to_add) ==
    IF id \in DOMAIN ps
    THEN LET p == update_inv(ps[id], inv_to_add) IN
         [ok |-> TRUE, players |-> [ps EXCEPT ![id] = p], ret |-> get_inv(p)]
    ELSE [ok |-> FALSE, players |-> ps, ret |-> 0]

\* get_bal_inv; <<>> stands for None
get_bal_inv(ps, id) ==
    IF id \in DOMAIN ps THEN <<get_bal(ps[id]), get_inv(ps[id])>> ELSE <<>>

\* the players guard of update_player dropped as soon as it is taken
update_player_guard_Dropped(owners, t) == owners

\* update_player: let mut players = self.players.lock().unwrap(), held to
\* the end of the function
update_player_guard(owners, t) == [owners EXCEPT !["players"] = t]

\* update_player without its player.update_inv(inv_to_add)
update_player_BalOnly(ps, id, bal_to_add, inv_to_add) ==
    IF id \in DOMAIN ps
    THEN [ok |-> TRUE, players |-> [ps EXCEPT ![id].balance = @ + bal_to_add]]
    ELSE [ok |-> FALSE, players |-> ps]

update_player(ps, id, bal_to_add, inv_to_add) ==
    IF id \in DOMAIN ps
    THEN [ok |-> TRUE,
          players |-> [ps EXCEPT ![id].inventory = @ + inv_to_add,
                                 ![id].balance = @ + bal_to_add]]
    ELSE [ok |-> FALSE, players |-> ps]

\* update_player adding every maker's payment to the Aggressive entry
update_player_profits_OneEntry(mp, ps, id, bal_to_add) ==
    IF id \in DOMAIN ps /\ ps[id].player_type = "Maker"
    THEN [mp EXCEPT !["Aggressive"] = @ + bal_to_add]
    ELSE mp

\* the maker_profits part of update_player
update_player_profits(mp, ps, id, bal_to_add) ==
    IF id \in DOMAIN ps /\ ps[id].player_type = "Maker"
    THEN [mp EXCEPT ![ps[id].maker_type] = @ + bal_to_add]
    ELSE mp

\* update_player_order_vol answering Ok(()) for a trader it does not find
update_player_order_vol_Lenient(ps, trader_id, order_id, vol_to_add) ==
    IF trader_id \in DOMAIN ps
    THEN LET r == update_order_vol(ps[trader_id], order_id, vol_to_add) IN
         [ok |-> r.ok, players |-> [ps EXCEPT ![trader_id].orders = r.orders]]
    ELSE [ok |-> TRUE, players |-> ps]

update_player_order_vol(ps, trader_id, order_id, vol_to_add) ==
    IF trader_id \in DOMAIN ps
    THEN LET r == update_order_vol(ps[trader_id], order_id, vol_to_add) IN
         [ok |-> r.ok, players |-> [ps EXCEPT ![trader_id].orders = r.orders]]
    ELSE [ok |-> FALSE, players |-> ps]

cancel_player_order(ps, trader_id, order_id) ==
    IF trader_id \in DOMAIN ps
    THEN LET r == cancel_order(ps[trader_id].orders, order_id) IN
         [ok |-> r.ok, players |-> [ps EXCEPT ![trader_id].orders = r.orders]]
    ELSE [ok |-> FALSE, players |-> ps]

\* what a call of update_player_order_vol saw and answered
VolCall(ps, trader_id, order_id, vol_to_add) ==
    LET held == trader_id \in DOMAIN ps
                /\ position(ps[trader_id].orders, order_id) # 0 IN
    [trader_id |-> trader_id, order_id |-> order_id, vol_to_add |-> vol_to_add,
     held |-> held,
     old |-> IF held
             THEN ps[trader_id].orders[position(ps[trader_id].orders, order_id)].quantity
             ELSE 0,
     ok |-> update_player_order_vol(ps, trader_id, order_id, vol_to_add).ok]

-----------------------------------------------------------------------------------------------------------------------------------------------------
(* Inputs of the settlement harness *)

Ids == Registered \cup {GHOST}
OrderIds == 1..MaxOrderId
Prices == {3}
Volumes == {1, 2}
Quantities == {2}

\* PlayerUpdates a CDA or FBA TradeResults may carry: fills (of a bid order
\* by another, ask, order), zero-volume entries and cancels
LimitUpdates ==
    {pu \in [payer_id : Ids, payer_order_id : OrderIds, vol_filler_id : Ids,
             vol_filler_order_id : OrderIds, price : Prices, volume : Volumes,
             cancel : {FALSE}] : pu.payer_order_id # pu.vol_filler_order_id}
    \cup
    [payer_id : Ids, payer_order_id : OrderIds, vol_filler_id : {INV1, GHOST},
     vol_filler_order_id : {1}, price : Prices, volume : {0}, cancel : {FALSE}]
    \cup
    [payer_id : Ids, payer_order_id : OrderIds, vol_filler_id : {INV1},
     vol_filler_order_id : {1}, price : Prices, volume : {0, 2}, cancel : {TRUE}]

\* PlayerUpdates a KLF TradeResults may carry: the payer may be the sentinel
FlowUpdates ==
    LimitUpdates
    \cup
    [payer_id : {id_check}, payer_order_id : {1}, vol_filler_id : Ids,
     vol_filler_order_id : OrderIds, price : Prices, volume : {0} \cup Volumes,
     cancel : {FALSE}]

UpdatesOf(auction_type) ==
    IF auction_type = "KLF" THEN FlowUpdates ELSE LimitUpdates

\* cross_results is None or Some(list); the list's PlayerUpdates are drawn when
\* the loop reaches them, the routines never write the list
TradeResultsIn ==
    [auction_type : {"CDA"}, uniform_price : {"None"}, cross_results : {"None", "Some"}]
    \cup
    [auction_type : {"FBA"}, uniform_price : {"Some"}, cross_results : {"None", "Some"}]
    \cup
    [auction_type : {"KLF"}, uniform_price : {"None", "Some"}, cross_results : {"None", "Some"}]

\* the signed payment and volume a PlayerUpdate of a KLF result stands for
FlowOf(pu) ==
    IF pu.cancel THEN [payment |-> 0, volume |-> 0]
    ELSE IF pu.payer_id = id_check
         THEN [payment |-> pu.price * pu.volume, volume |-> -pu.volume]
         ELSE [payment |-> -(pu.price * pu.volume), volume |-> pu.volume]

RECURSIVE SumBalance(_, _)
SumBalance(ps, S) ==
    IF S = {} THEN 0
    ELSE LET id == CHOOSE x \in S : TRUE IN ps[id].balance + SumBalance(ps, S \ {id})

RECURSIVE SumInventory(_, _)
SumInventory(ps, S) ==
    IF S = {} THEN 0
    ELSE LET id == CHOOSE x \in S : TRUE IN ps[id].inventory + SumInventory(ps, S \ {id})

Totals(ps) == [balance |-> SumBalance(ps, DOMAIN ps),
               inventory |-> SumInventory(ps, DOMAIN ps)]

NoPlayers == [id \in {} |-> 0]

-----------------------------------------------------------------------------
(* Initial state: init_simulation has registered the players *)

InitHouse ==
    /\ players = [id \in Registered |->
                    IF id = INV1 THEN Player_new("Investor", "None")
                    ELSE IF id = MKR1 THEN Player_new("Maker", "Aggressive")
                    ELSE Player_new("Miner", "None")]
    /\ gas_fees = <<>>
    /\ total_tax = 0
    /\ maker_profits = [t \in MakerT |-> 0]
    /\ next_order_id = 1

InitSettle ==
    /\ results = NoResults
    /\ remaining = 0
    /\ pc = "idle"
    /\ cur = NoUpdate
    /\ outcome = ""
    /\ pu_pre = NoPlayers
    /\ uh_pre = [balance |-> 0, inventory |-> 0]
    /\ flow = [payment |-> 0, volume |-> 0]
    /\ last = NoCall

InitMiner ==
    /\ mempool = <<>>
    /\ frame = <<>>
    /\ mpc = "tick"
    /\ size = 0
    /\ gas_changes = <<>>
    /\ total_gas = 0
    /\ tick_pre = NoPlayers
    /\ ticks = 0

\* no front-run call made yet
NoFrontRun == [pc |-> "idle", how |-> "", old |-> <<>>, ok |-> FALSE, order_id |-> 0,
               best_bid_price |-> 0, best_ask_price |-> 0]

InitFrontRun == fr_call = NoFrontRun

\* BlockNum::new; the three loops at their first tick; empty books
InitSim ==
    /\ block_num = 0
    /\ inv_pc = "tick"
    /\ mk_pc = "tick"
    /\ mk_orders = <<>>
    /\ published = "None"
    /\ books = [bids |-> {}, asks |-> {}]

\* the Mutexes of the ClearingHouse, of the MemPool and of the Books
HouseLocks == {"players", "gas_fees", "total_tax", "maker_profits"}
Locks == HouseLocks \cup {"mempool", "book", "block_num"}
Threads == {"investor", "maker", "miner"}

InitLocks ==
    /\ lock_owner = [l \in Locks |-> "free"]
    /\ lpc = [t \in Threads |-> 1]

\* no ClearingHouse call made yet
NoHouseCall == [op |-> "", id |-> "", order_id |-> 0, bal |-> 0, inv |-> 0, ok |-> FALSE,
                ret |-> <<>>, orders |-> <<>>, players |-> NoPlayers, total_tax |-> 0,
                maker_profits |-> <<>>, pc |-> "done", seen |-> <<>>]

InitCalls ==
    /\ h_call = NoHouseCall
    /\ h_count = 0

\* no order processed yet
NoBookCall == [market |-> "", op |-> "", order |-> <<>>, bids |-> <<>>, asks |-> <<>>,
               updates |-> <<>>, found |-> FALSE, entered |-> <<>>]

\* Book::new for both sides
InitBooks ==
    /\ bids_book = <<>>
    /\ asks_book = <<>>
    /\ bk_call = NoBookCall
    /\ bk_count = 0

InitExt ==
    InitFrontRun /\ InitSim /\ InitLocks /\ InitCalls /\ InitBooks /\ charged = <<>>

Init == InitHouse /\ InitSettle /\ InitMiner /\ InitExt

-----------------------------------------------------------------------------
(* A trader thread registers an order with the ClearingHouse, before the    *)
(* settlement under study is entered                                        *)

NewOrder ==
    /\ pc = "idle"
    /\ next_order_id <= MaxOrderId
    /\ \E t_id \in Registered, q \in Quantities :
         LET order == Order_new(t_id, "Enter", "Bid", "LimitOrder", 3, 3, 3, q, 1,
                                next_order_id) IN
         players' = new_order(players, order).players
    /\ next_order_id' = next_order_id + 1
    /\ UNCHANGED <<gas_fees, total_tax, maker_profits>>
    /\ UNCHANGED <<settle_vars, fr_call, lock_vars, api_vars>>
    /\ UNCHANGED sim_vars
    /\ UNCHANGED <<miner_vars, ext_vars>>

-----------------------------------------------------------------------------
(* update_house and the three settlement routines *)

\* update_house: dispatch, and the routines' early returns
UpdateHouse ==
    /\ pc = "idle"
    /\ \E tr \in TradeResultsIn, n \in 0..MaxUpdates :
         /\ results' = tr
         /\ IF tr.cross_results = "None"
               \/ (tr.auction_type = "KLF" /\ tr.uniform_price = "None")
            THEN pc' = "returned" /\ remaining' = 0 /\ n = 0
            ELSE pc' = "loop" /\ remaining' = n
    /\ uh_pre' = Totals(players)
    /\ UNCHANGED <<house_vars, next_order_id, cur, outcome, pu_pre, flow, last>>
    /\ UNCHANGED <<miner_vars, ext_vars>>

\* the for loop has run out of PlayerUpdates
LoopEnd ==
    /\ pc = "loop"
    /\ remaining = 0
    /\ pc' = "returned"
    /\ UNCHANGED <<house_vars, next_order_id, results, remaining, cur, outcome,
                   pu_pre, uh_pre, flow, last>>
    /\ UNCHANGED <<miner_vars, ext_vars>>

\* the loop body is over (continue, or its last statement): the loop leaves
\* this PlayerUpdate
Advance ==
    /\ pc = "next"
    /\ pc' = "loop"
    /\ remaining' = remaining - 1
    /\ cur' = NoUpdate
    /\ outcome' = ""
    /\ pu_pre' = NoPlayers
    /\ last' = NoCall
    /\ UNCHANGED <<house_vars, next_order_id, results, uh_pre, flow>>
    /\ UNCHANGED <<miner_vars, ext_vars>>

\* the loop is at its head with a PlayerUpdate left, in one of the routines
AtLoop(types) ==
    /\ pc = "loop"
    /\ remaining > 0
    /\ results.auction_type \in types

\* the loop takes the next PlayerUpdate pu
Take(pu) ==
    /\ pu \in UpdatesOf(results.auction_type)
    /\ cur' = pu
    /\ pu_pre' = players
    /\ flow' = IF results.auction_type = "KLF"
               THEN [payment |-> flow.payment + FlowOf(pu).payment,
                     volume |-> flow.volume + FlowOf(pu).volume]
               ELSE flow
    /\ UNCHANGED remaining

Panic ==
    /\ pc' = "panicked"
    /\ outcome' = "panicked"

\* if pu.cancel == true { cancel_player_order(...); continue; }
CancelUpdate ==
    /\ AtLoop({"CDA", "FBA", "KLF"})
    /\ \E pu \in FlowUpdates :
      /\ Take(pu)
      /\ pu.cancel
      /\ LET r == cancel_player_order(players, pu.payer_id, pu.payer_order_id) IN
           /\ players' = r.players
           /\ pc' = "next"
           /\ outcome' = IF r.ok THEN "cancelled" ELSE "cancel_failed"
      /\ UNCHANGED <<gas_fees, total_tax, maker_profits, next_order_id, results,
                     uh_pre, last>>
      /\ UNCHANGED <<miner_vars, ext_vars>>

\* if volume == 0.0 { continue; } (cda_cross_update and fba_batch_update only)
ZeroVolume ==
    /\ AtLoop({"CDA", "FBA"})
    /\ \E pu \in LimitUpdates :
      /\ Take(pu)
      /\ ~pu.cancel
      /\ pu.volume = 0
      /\ pc' = "next"
      /\ outcome' = "skipped"
      /\ UNCHANGED <<house_vars, next_order_id, results, uh_pre, last>>
      /\ UNCHANGED <<miner_vars, ext_vars>>

\* a call of update_player by the settlement thread; None goes to on_none
CallUpdatePlayer(id, bal_to_add, inv_to_add, then_pc, on_none) ==
    LET r == update_player(players, id, bal_to_add, inv_to_add) IN
    /\ players' = r.players
    /\ maker_profits' = update_player_profits(maker_profits, players, id, bal_to_add)
    /\ IF r.ok \/ on_none = "ignore"
       THEN pc' = then_pc /\ outcome' = ""
       ELSE Panic
    /\ UNCHANGED <<gas_fees, total_tax, next_order_id, results, remaining, uh_pre, last>>
    /\ UNCHANGED <<miner_vars, ext_vars>>

\* a call of update_player_order_vol(..).expect("Failed to update")
CallUpdateOrderVol(trader_id, order_id, vol_to_add, then_pc, how) ==
    LET r == update_player_order_vol(players, trader_id, order_id, vol_to_add) IN
    /\ players' = r.players
    /\ last' = VolCall(players, trader_id, order_id, vol_to_add)
    /\ IF r.ok
       THEN pc' = then_pc /\ outcome' = how
       ELSE Panic
    /\ UNCHANGED <<gas_fees, total_tax, maker_profits, next_order_id, results,
                   remaining, cur, pu_pre, uh_pre, flow>>
    /\ UNCHANGED <<miner_vars, ext_vars>>

\* Update bidder: -bal, +inv; a missing bidder panics
LimitBidder ==
    /\ AtLoop({"CDA", "FBA"})
    /\ \E pu \in LimitUpdates :
      /\ Take(pu)
      /\ ~pu.cancel
      /\ pu.volume # 0
      /\ CallUpdatePlayer(pu.payer_id, -(pu.price * pu.volume), pu.volume,
                          "bidder_vol", "panic")

LimitBidderVol ==
    /\ pc = "bidder_vol"
    /\ CallUpdateOrderVol(cur.payer_id, cur.payer_order_id, -cur.volume, "asker", "")

\* the asker updated with the bidder's inventory sign
LimitAsker_SignSlip ==
    /\ pc = "asker"
    /\ CallUpdatePlayer(cur.vol_filler_id, cur.price * cur.volume, cur.volume,
                        "asker_vol", "panic")
    /\ UNCHANGED <<cur, pu_pre, flow>>

\* Update asker: +bal, -inv; a missing asker panics
LimitAsker ==
    /\ pc = "asker"
    /\ CallUpdatePlayer(cur.vol_filler_id, cur.price * cur.volume, -cur.volume,
                        "asker_vol", "panic")
    /\ UNCHANGED <<cur, pu_pre, flow>>

LimitAskerVol ==
    /\ pc = "asker_vol"
    /\ CallUpdateOrderVol(cur.vol_filler_id, cur.vol_filler_order_id, -cur.volume,
                          "next", "applied")

cda_cross_update ==
    /\ results.auction_type = "CDA"
    /\ (LimitBidder \/ LimitBidderVol \/ LimitAsker \/ LimitAskerVol)

fba_batch_update ==
    /\ results.auction_type = "FBA"
    /\ (LimitBidder \/ LimitBidderVol \/ LimitAsker \/ LimitAskerVol)

\* the ask branch settling the vol_filler as if it were the bidder
FlowAsker_AsBidder ==
    /\ AtLoop({"KLF"})
    /\ \E pu \in FlowUpdates :
      /\ Take(pu)
      /\ ~pu.cancel
      /\ pu.payer_id = id_check
      /\ CallUpdatePlayer(pu.vol_filler_id, -(pu.price * pu.volume), pu.volume,
                          "ask_vol", "ignore")

\* flow_batch_update: the ask branch, pu.payer_id == "N/A"; update_player's None is ignored
FlowAsker ==
    /\ AtLoop({"KLF"})
    /\ \E pu \in FlowUpdates :
      /\ Take(pu)
      /\ ~pu.cancel
      /\ pu.payer_id = id_check
      /\ CallUpdatePlayer(pu.vol_filler_id, pu.price * pu.volume, -pu.volume,
                          "ask_vol", "ignore")

FlowAskerVol ==
    /\ pc = "ask_vol"
    /\ CallUpdateOrderVol(cur.vol_filler_id, cur.vol_filler_order_id, -cur.volume,
                          "next", "applied")

\* flow_batch_update: the bid branch; update_player's None is ignored
FlowBidder ==
    /\ AtLoop({"KLF"})
    /\ \E pu \in FlowUpdates :
      /\ Take(pu)
      /\ ~pu.cancel
      /\ pu.payer_id # id_check
      /\ CallUpdatePlayer(pu.payer_id, -(pu.price * pu.volume), pu.volume,
                          "bid_vol", "ignore")

FlowBidderVol ==
    /\ pc = "bid_vol"
    /\ CallUpdateOrderVol(cur.payer_id, cur.payer_order_id, -cur.volume,
                          "next", "applied")

flow_batch_update ==
    /\ results.auction_type = "KLF"
    /\ (FlowAsker \/ FlowAskerVol \/ FlowBidder \/ FlowBidderVol)

update_house ==
    \/ UpdateHouse
    \/ CancelUpdate
    \/ ZeroVolume
    \/ cda_cross_update
    \/ fba_batch_update
    \/ flow_batch_update
    \/ Advance
    \/ LoopEnd

Next == NewOrder \/ update_house

Spec == Init /\ [][Next]_vars

-----------------------------------------------------------------------------
(* The MemPool and the miner's frame *)

RECURSIVE insert_by_gas(_, _)
\* o goes behind every order of gas >= its own
insert_by_gas(sorted, o) ==
    IF sorted = <<>> THEN <<o>>
    ELSE IF Head(sorted).gas >= o.gas
         THEN <<Head(sorted)>> \o insert_by_gas(Tail(sorted), o)
         ELSE <<o>> \o sorted

RECURSIVE sort_by_gas(_)
\* MemPool::sort_by_gas: descending gas, equal gas in submission order
sort_by_gas(items) ==
    IF items = <<>> THEN <<>>
    ELSE insert_by_gas(sort_by_gas(SubSeq(items, 1, Len(items) - 1)),
                       items[Len(items)])

\* MemPool::pop_all: every order the pool holds at the call
pop_all(items) == [popped |-> items, items |-> <<>>]

\* MemPool::pop_n: the first n orders
pop_n(items, n) ==
    [popped |-> SubSeq(items, 1, n), items |-> SubSeq(items, n + 1, Len(items))]

RECURSIVE sum_gas(_)
sum_gas(fr) == IF fr = <<>> THEN 0 ELSE Head(fr).gas + sum_gas(Tail(fr))

\* collect_gas without the miner's own entry
collect_gas_NoMinerEntry(fr, miner_id) ==
    [to_update |-> [i \in 1..Len(fr) |-> <<fr[i].trader_id, fr[i].gas>>],
     total_gas |-> sum_gas(fr)]

\* Miner::collect_gas
collect_gas(fr, miner_id) ==
    [to_update |-> [i \in 1..Len(fr) |-> <<fr[i].trader_id, fr[i].gas>>]
                   \o <<<<miner_id, -sum_gas(fr)>>>>,
     total_gas |-> sum_gas(fr)]

RECURSIVE apply_gas_fees(_, _)
\* the loop of ClearingHouse::apply_gas_fees over to_change
apply_gas_fees(ps, to_change) ==
    IF to_change = <<>> THEN ps
    ELSE LET c == Head(to_change) IN
         apply_gas_fees(IF c[1] \in DOMAIN ps
                        THEN [ps EXCEPT ![c[1]].balance = @ - c[2]]
                        ELSE ps,
                        Tail(to_change))

-----------------------------------------------------------------------------
(* Reading the ledger and the order lists in the properties below *)

\* the quantities player t's record holds under order id o_id (a set: empty
\* when the order is absent)
Held(ps, t, o_id) ==
    IF t \in DOMAIN ps
    THEN {ps[t].orders[i].quantity :
            i \in {j \in 1..Len(ps[t].orders) : ps[t].orders[j].order_id = o_id}}
    ELSE {}

\* player t's orders other than o_id, in list order
Others(ps, t, o_id) == SelectSeq(ps[t].orders, LAMBDA o : o.order_id # o_id)

\* an order of quantity old got vol taken off: its quantity is old - vol if it
\* is still listed, and it is still listed if anything remains
Decremented(before, after, t, o_id, vol) ==
    \A old \in Held(before, t, o_id) :
        /\ Held(after, t, o_id) \subseteq {old - vol}
        /\ (old - vol > 0 => Held(after, t, o_id) = {old - vol})

\* balances and inventories are the same in both maps
SameLedger(before, after) ==
    /\ DOMAIN before = DOMAIN after
    /\ \A id \in DOMAIN before :
        /\ after[id].balance = before[id].balance
        /\ after[id].inventory = before[id].inventory

Fill == cur # NoUpdate /\ ~cur.cancel

-----------------------------------------------------------------------------
(* The investor loop and the miner loop *)

Gases == {1, 2}
\* the sides the investor loop draws from (gas and frames do not read the side)
TradeTypes == {"Bid"}

InitMinerHouse ==
    /\ players = [id \in {INV1, INV2, MKR1, MNR1} |->
                    IF id \in {INV1, INV2} THEN Player_new("Investor", "None")
                    ELSE IF id = MKR1
                    THEN [Player_new("Maker", "Aggressive") EXCEPT !.inventory = 1]
                    ELSE Player_new("Miner", "None")]
    /\ gas_fees = <<>>
    /\ total_tax = 0
    /\ maker_profits = [t \in MakerT |-> 0]
    /\ next_order_id = 1

MinerInit == InitMinerHouse /\ InitSettle /\ InitMiner /\ InitExt

\* investor_task: if block_num.read_count() > consts.num_blocks { break; }
\* investor_task: the order of one tick, from the market type and the samples
investor_order(trader_id, trade_type, market_type, price, quantity, gas, o_id) ==
    LET ex_type == IF market_type \in {"CDA", "FBA"} THEN "LimitOrder" ELSE "FlowOrder"
        p_l == IF ex_type = "LimitOrder" THEN price
               ELSE IF trade_type = "Ask" THEN price ELSE price - flow_order_offset
        p_h == IF ex_type = "LimitOrder" THEN price
               ELSE IF trade_type = "Ask" THEN price + flow_order_offset ELSE price
    IN Order_new(trader_id, "Enter", trade_type, ex_type, p_l, p_h, price, quantity,
                 gas, o_id)

InvestorExit ==
    /\ inv_pc = "tick"
    /\ block_num > num_blocks
    /\ inv_pc' = "exited"
    /\ UNCHANGED <<house_vars, next_order_id, miner_vars, settle_vars, fr_call, lock_vars, api_vars>>
    /\ UNCHANGED <<block_num, mk_pc, mk_orders, published, books>>

\* one tick of investor_task that passes the check: a random investor's order
\* goes to the ClearingHouse and, when that succeeded, to the MemPool
investor_task ==
    /\ inv_pc = "tick"
    /\ ~(block_num > num_blocks)
    /\ next_order_id <= MaxSubmits
    /\ \E trader_id \in {id \in DOMAIN players : players[id].player_type = "Investor"},
          trade_type \in TradeTypes, gas \in Gases :
         LET order == investor_order(trader_id, trade_type, "CDA", 3, 2, gas,
                                     next_order_id)
             r == new_order(players, order) IN
         /\ players' = r.players
         /\ mempool' = IF r.ok THEN Append(mempool, order) ELSE mempool
    /\ next_order_id' = next_order_id + 1
    /\ UNCHANGED <<gas_fees, total_tax, maker_profits>>
    /\ UNCHANGED <<settle_vars, fr_call, lock_vars, api_vars>>
    /\ UNCHANGED <<inv_pc, block_num, mk_pc, mk_orders, published, books>>
    /\ UNCHANGED <<frame, mpc, size, gas_changes, total_gas, tick_pre, ticks>>

\* miner_task: let (gas_changes, total_gas) = miner.collect_gas()
MinerCollectGas ==
    /\ mpc = "tick"
    /\ ticks < MaxTicks
    /\ ticks' = ticks + 1
    /\ gas_changes' = collect_gas(frame, MNR1).to_update
    /\ total_gas' = collect_gas(frame, MNR1).total_gas
    /\ mpc' = "apply"
    /\ UNCHANGED <<house_vars, next_order_id, mempool, frame, size, tick_pre>>
    /\ UNCHANGED <<settle_vars, fr_call, lock_vars, api_vars>>
    /\ UNCHANGED sim_vars

\* the record of the orders charged, after gas was collected from frame fr
Charge(ch, fr) ==
    LET ids == {fr[i].order_id : i \in 1..Len(fr)} IN
    [id \in DOMAIN ch \cup ids |->
        (IF id \in DOMAIN ch THEN ch[id] ELSE 0)
        + Cardinality({i \in 1..Len(fr) : fr[i].order_id = id})]

\* miner_task: house.apply_gas_fees(gas_changes, total_gas)
MinerApplyGasFees ==
    /\ mpc = "apply"
    /\ gas_fees' = Append(gas_fees, total_gas)
    /\ players' = apply_gas_fees(players, gas_changes)
    /\ tick_pre' = players
    /\ gas_changes' = <<>>
    /\ total_gas' = 0
    /\ mpc' = "publish"
    /\ charged' = Charge(charged, frame)
    /\ UNCHANGED <<total_tax, maker_profits, next_order_id, mempool, frame, size, ticks>>
    /\ UNCHANGED <<settle_vars, fr_call, lock_vars, call_vars, book_vars>>
    /\ UNCHANGED sim_vars

\* the ids of the orders of side t in fr
SideIds(fr, t) == {fr[i].order_id : i \in {j \in 1..Len(fr) : fr[j].trade_type = t}}

\* publish_frame processing the frame and leaving its orders in it
MinerPublishFrame_KeepsFrame ==
    /\ mpc = "publish"
    /\ books' = [bids |-> books.bids \cup SideIds(frame, "Bid"),
                 asks |-> books.asks \cup SideIds(frame, "Ask")]
    /\ \E res \in {"None", "Some"} :
         /\ published' = res
         /\ mpc' = IF res = "Some" THEN "update_house" ELSE "tax"
    /\ tick_pre' = NoPlayers
    /\ UNCHANGED <<house_vars, next_order_id, mempool, frame, size, gas_changes,
                   total_gas, ticks>>
    /\ UNCHANGED <<settle_vars, fr_call, lock_vars, api_vars>>
    /\ UNCHANGED <<block_num, inv_pc, mk_pc, mk_orders>>

\* miner_task: miner.publish_frame(..): seq_process_orders drains the frame
\* into the books; the matching returns Some(results) or None
MinerPublishFrame ==
    /\ mpc = "publish"
    /\ frame' = <<>>
    /\ books' = [bids |-> books.bids \cup SideIds(frame, "Bid"),
                 asks |-> books.asks \cup SideIds(frame, "Ask")]
    /\ \E res \in {"None", "Some"} :
         /\ published' = res
         /\ mpc' = IF res = "Some" THEN "update_house" ELSE "tax"
    /\ tick_pre' = NoPlayers
    /\ UNCHANGED <<house_vars, next_order_id, mempool, size, gas_changes, total_gas,
                   ticks>>
    /\ UNCHANGED <<settle_vars, fr_call, lock_vars, api_vars>>
    /\ UNCHANGED <<block_num, inv_pc, mk_pc, mk_orders>>

\* the player whose record holds order o_id
OwnerOf(ps, o_id) == CHOOSE id \in DOMAIN ps : Held(ps, id, o_id) # {}

\* the loop body of cda_cross_update on one fill, run through
settle_fill(ps, pu) ==
    LET payment == pu.price * pu.volume
        p1 == update_player(ps, pu.payer_id, -payment, pu.volume).players
        p2 == update_player_order_vol(p1, pu.payer_id, pu.payer_order_id,
                                      -pu.volume).players
        p3 == update_player(p2, pu.vol_filler_id, payment, -pu.volume).players
    IN update_player_order_vol(p3, pu.vol_filler_id, pu.vol_filler_order_id,
                               -pu.volume).players

\* the fills the matching may report: a bid of the book against an ask of the
\* book, both held whole in their owners' records
BookFills ==
    {pu \in [payer_id : DOMAIN players, payer_order_id : books.bids,
             vol_filler_id : DOMAIN players, vol_filler_order_id : books.asks,
             price : {3}, volume : {2}, cancel : {FALSE}] :
        /\ Held(players, pu.payer_id, pu.payer_order_id) = {2}
        /\ Held(players, pu.vol_filler_id, pu.vol_filler_order_id) = {2}}

\* miner_task, publish_frame having returned Some(vec_results):
\* block_num.inc_count(), then house.update_house(res) for each result
MinerUpdateHouse ==
    /\ mpc = "update_house"
    /\ block_num' = block_num + 1
    /\ \/ UNCHANGED <<players, maker_profits, books>>
       \/ \E pu \in BookFills :
            /\ players' = settle_fill(players, pu)
            /\ maker_profits' =
                  update_player_profits(
                      update_player_profits(maker_profits, players, pu.payer_id,
                                            -(pu.price * pu.volume)),
                      players, pu.vol_filler_id, pu.price * pu.volume)
            /\ books' = [bids |-> books.bids \ {pu.payer_order_id},
                         asks |-> books.asks \ {pu.vol_filler_order_id}]
    /\ mpc' = "tax"
    /\ UNCHANGED <<gas_fees, total_tax, next_order_id, mempool, frame, size,
                   gas_changes, total_gas, tick_pre, ticks>>
    /\ UNCHANGED <<settle_vars, fr_call, lock_vars, api_vars>>
    /\ UNCHANGED <<inv_pc, mk_pc, mk_orders, published>>

Abs(x) == IF x < 0 THEN -x ELSE x

\* the ids get_filtered_ids(TraderT::Maker) returns
MakerIds(ps) == {id \in DOMAIN ps : ps[id].player_type = "Maker"}

\* tax_makers without the .abs() of (inventory * tax)
tax_makers_Signed(ps, tax) ==
    [players |-> [id \in DOMAIN ps |->
                    IF id \in MakerIds(ps)
                    THEN [ps[id] EXCEPT !.balance = @ - ps[id].inventory * tax]
                    ELSE ps[id]],
     tax_amt |-> SumInventory([id \in MakerIds(ps) |->
                                 [inventory |-> ps[id].inventory * tax]],
                              MakerIds(ps))]

\* liquidate paying every player and leaving the inventories as they are
liquidate_KeepsInventory(ps, mp, fund_val) ==
    [players |-> [id \in DOMAIN ps |->
                    update_bal(ps[id], get_inv(ps[id]) * fund_val)],
     maker_profits |-> mp]

\* liquidate taking twice the inventory out, which leaves it negated
liquidate_FlipsInventory(ps, mp, fund_val) ==
    [players |-> [id \in DOMAIN ps |->
                    LET cur_inv == get_inv(ps[id])
                        update_amount == cur_inv * fund_val IN
                    update_inv(update_bal(ps[id], update_amount), -(2 * cur_inv))],
     maker_profits |-> [t \in DOMAIN mp |->
                          mp[t] + SumInventory(
                                     [id \in DOMAIN ps |->
                                        [inventory |-> get_inv(ps[id]) * fund_val]],
                                     {id \in MakerIds(ps) : ps[id].maker_type = t})]]

\* ClearingHouse::liquidate: every player is paid inventory * fund_val and its
\* inventory zeroed; a maker's payment is added to its maker_profits entry
liquidate(ps, mp, fund_val) ==
    [players |-> [id \in DOMAIN ps |->
                    LET cur_inv == get_inv(ps[id])
                        update_amount == cur_inv * fund_val IN
                    update_inv(update_bal(ps[id], update_amount), -cur_inv)],
     maker_profits |-> [t \in DOMAIN mp |->
                          mp[t] + SumInventory(
                                     [id \in DOMAIN ps |->
                                        [inventory |-> get_inv(ps[id]) * fund_val]],
                                     {id \in MakerIds(ps) : ps[id].maker_type = t})]]

\* tax_makers fetching each maker with get_player, which takes it out of the map
tax_makers_TakesMakers(ps, tax) ==
    [players |-> [id \in DOMAIN ps \ MakerIds(ps) |-> ps[id]],
     tax_amt |-> SumInventory([id \in MakerIds(ps) |->
                                 [inventory |-> Abs(ps[id].inventory * tax)]],
                              MakerIds(ps))]

\* ClearingHouse::tax_makers
tax_makers(ps, tax) ==
    [players |-> [id \in DOMAIN ps |->
                    IF id \in MakerIds(ps)
                    THEN [ps[id] EXCEPT !.balance = @ - Abs(ps[id].inventory * tax)]
                    ELSE ps[id]],
     tax_amt |-> SumInventory([id \in MakerIds(ps) |->
                                 [inventory |-> Abs(ps[id].inventory * tax)]],
                              MakerIds(ps))]

\* miner_task: house.tax_makers(consts.maker_inv_tax)
MinerTaxMakers ==
    /\ mpc = "tax"
    /\ players' = tax_makers(players, maker_inv_tax).players
    /\ total_tax' = total_tax + tax_makers(players, maker_inv_tax).tax_amt
    /\ mpc' = "make_frame"
    /\ published' = "None"
    /\ UNCHANGED <<gas_fees, maker_profits, next_order_id, mempool, frame, size,
                   gas_changes, total_gas, tick_pre, ticks>>
    /\ UNCHANGED <<settle_vars, fr_call, lock_vars, api_vars>>
    /\ UNCHANGED <<block_num, inv_pc, mk_pc, mk_orders, books>>

\* make_frame: let size = pool.length(); if size == 0 { return }
MakeFrameLength ==
    /\ mpc = "make_frame"
    /\ size' = Len(mempool)
    /\ mpc' = IF Len(mempool) = 0 THEN "front_run" ELSE "sort"
    /\ UNCHANGED <<house_vars, next_order_id, mempool, frame, gas_changes, total_gas,
                   tick_pre, ticks>>
    /\ UNCHANGED <<settle_vars, fr_call, lock_vars, api_vars>>
    /\ UNCHANGED sim_vars

\* make_frame: pool.sort_by_gas()
MakeFrameSort ==
    /\ mpc = "sort"
    /\ mempool' = sort_by_gas(mempool)
    /\ mpc' = "pop"
    /\ UNCHANGED <<house_vars, next_order_id, frame, size, gas_changes, total_gas,
                   tick_pre, ticks>>
    /\ UNCHANGED <<settle_vars, fr_call, lock_vars, api_vars>>
    /\ UNCHANGED sim_vars

\* make_frame: if size <= block_size { pop_all() } else { pop_n(block_size) }
MakeFramePop ==
    /\ mpc = "pop"
    /\ LET r == IF size <= block_size THEN pop_all(mempool)
                ELSE pop_n(mempool, block_size) IN
         /\ frame' = r.popped
         /\ mempool' = r.items
    /\ mpc' = "front_run"
    /\ size' = 0
    /\ UNCHANGED <<house_vars, next_order_id, gas_changes, total_gas, tick_pre, ticks>>
    /\ UNCHANGED <<settle_vars, fr_call, lock_vars, api_vars>>
    /\ UNCHANGED sim_vars

make_frame == MakeFrameLength \/ MakeFrameSort \/ MakeFramePop

\* random_front_run leaving the copy the order id of the order it was cloned from
random_front_run_KeepsId(fr, i, miner_id, o_id) ==
    LET copied == [fr[i] EXCEPT !.trader_id = miner_id, !.gas = 0]
    IN [order |-> copied, frame |-> <<copied>> \o fr]

\* random_front_run pushing the copy behind the frame instead of inserting it at 0
random_front_run_Append(fr, i, miner_id, o_id) ==
    LET copied == [fr[i] EXCEPT !.trader_id = miner_id, !.gas = 0, !.order_id = o_id]
    IN [order |-> copied, frame |-> Append(fr, copied)]

\* Miner::random_front_run: a copy of an order of the frame, the miner's, gas 0,
\* a fresh order_id, inserted at the head of the frame
random_front_run(fr, i, miner_id, o_id) ==
    LET copied == [fr[i] EXCEPT !.trader_id = miner_id, !.gas = 0, !.order_id = o_id]
    IN [order |-> copied, frame |-> <<copied>> \o fr]

\* miner_task: do_with_prob(front_run_perc) is false, or front_run is Err on
\* an empty frame
MinerNoFrontRun ==
    /\ mpc = "front_run"
    /\ mpc' = "tick"
    /\ UNCHANGED <<house_vars, next_order_id, mempool, frame, size, gas_changes,
                   total_gas, tick_pre, ticks>>
    /\ UNCHANGED <<settle_vars, fr_call, lock_vars, api_vars>>
    /\ UNCHANGED sim_vars

\* the front-run order inserted and never handed to house.new_order
MinerFrontRun_Unregistered ==
    /\ mpc = "front_run"
    /\ \E i \in 1..Len(frame) :
         frame' = random_front_run(frame, i, MNR1, next_order_id).frame
    /\ next_order_id' = next_order_id + 1
    /\ mpc' = "tick"
    /\ UNCHANGED <<house_vars, mempool, size, gas_changes, total_gas, tick_pre, ticks>>
    /\ UNCHANGED <<settle_vars, fr_call, lock_vars, api_vars>>
    /\ UNCHANGED sim_vars

\* miner_task: front_run is Ok(order); house.new_order(order)
MinerFrontRun ==
    /\ mpc = "front_run"
    /\ \E i \in 1..Len(frame) :
         LET r == random_front_run(frame, i, MNR1, next_order_id) IN
           /\ frame' = r.frame
           /\ players' = new_order(players, r.order).players
    /\ next_order_id' = next_order_id + 1
    /\ mpc' = "tick"
    /\ UNCHANGED <<gas_fees, total_tax, maker_profits, mempool, size, gas_changes,
                   total_gas, tick_pre, ticks>>
    /\ UNCHANGED <<settle_vars, fr_call, lock_vars, api_vars>>
    /\ UNCHANGED sim_vars

miner_task ==
    \/ MinerCollectGas \/ MinerApplyGasFees \/ MinerPublishFrame
    \/ MinerUpdateHouse \/ MinerTaxMakers \/ make_frame
    \/ MinerNoFrontRun \/ MinerFrontRun

\* get_player_order_count answering Ok(0) whatever the record holds
get_player_order_count_Zero(ps, id) == 0

\* ClearingHouse::get_player_order_count; Ok(n) is n
get_player_order_count(ps, id) == Len(ps[id].orders)

\* maker_task: a maker with no order in its record, drawn by do_with_prob, gets
\* its (bid, ask) pair from house.maker_new_orders
MakerCheck ==
    /\ mk_pc = "tick"
    /\ next_order_id + 1 <= MaxMakerIds
    /\ \E id \in MakerIds(players) :
         /\ get_player_order_count(players, id) = 0
         /\ mk_orders' = <<Order_new(id, "Enter", "Bid", "LimitOrder", 2, 2, 2, 2, 1,
                                     next_order_id),
                           Order_new(id, "Enter", "Ask", "LimitOrder", 4, 4, 4, 2, 1,
                                     next_order_id + 1)>>
    /\ next_order_id' = next_order_id + 2
    /\ mk_pc' = "bid"
    /\ UNCHANGED <<house_vars, miner_vars, settle_vars, fr_call, lock_vars, api_vars>>
    /\ UNCHANGED <<block_num, inv_pc, published, books>>

\* maker_task: house.new_order(order) and, on Ok, the order to the MemPool
MakerSubmit(order, then_pc) ==
    /\ LET r == new_order(players, order) IN
         /\ players' = r.players
         /\ mempool' = IF r.ok THEN Append(mempool, order) ELSE mempool
    /\ mk_pc' = then_pc
    /\ UNCHANGED <<gas_fees, total_tax, maker_profits, next_order_id>>
    /\ UNCHANGED <<frame, mpc, size, gas_changes, total_gas, tick_pre, ticks>>
    /\ UNCHANGED <<settle_vars, fr_call, lock_vars, api_vars>>
    /\ UNCHANGED <<block_num, inv_pc, published, books>>

MakerBid ==
    /\ mk_pc = "bid"
    /\ MakerSubmit(mk_orders[1], "ask")
    /\ UNCHANGED mk_orders

MakerAsk ==
    /\ mk_pc = "ask"
    /\ MakerSubmit(mk_orders[2], "tick")
    /\ mk_orders' = <<>>

maker_task == MakerCheck \/ MakerBid \/ MakerAsk

MinerNext == InvestorExit \/ investor_task \/ maker_task \/ miner_task

MinerSpec == MinerInit /\ [][MinerNext]_vars

\* The miner loop running for ever.  MinerSpec stops it after MaxTicks ticks;
\* here it ticks as long as the counter has not passed num_blocks, and the
\* two things that grow with every tick are kept finite: ticks stops counting
\* at MaxTicks and gas_fees keeps its last MaxTicks entries.
LastEntries(s, n) == IF Len(s) <= n THEN s ELSE SubSeq(s, Len(s) - n + 1, Len(s))

\* miner_task: let (gas_changes, total_gas) = miner.collect_gas()
LoopCollectGas ==
    /\ mpc = "tick"
    /\ ~(block_num > num_blocks)
    /\ ticks' = IF ticks < MaxTicks THEN ticks + 1 ELSE ticks
    /\ gas_changes' = collect_gas(frame, MNR1).to_update
    /\ total_gas' = collect_gas(frame, MNR1).total_gas
    /\ mpc' = "apply"
    /\ UNCHANGED <<house_vars, next_order_id, mempool, frame, size, tick_pre>>
    /\ UNCHANGED <<settle_vars, fr_call, lock_vars, api_vars>>
    /\ UNCHANGED sim_vars

\* miner_task: house.apply_gas_fees(gas_changes, total_gas)
LoopApplyGasFees ==
    /\ mpc = "apply"
    /\ gas_fees' = LastEntries(Append(gas_fees, total_gas), MaxTicks)
    /\ players' = apply_gas_fees(players, gas_changes)
    /\ tick_pre' = players
    /\ gas_changes' = <<>>
    /\ total_gas' = 0
    /\ mpc' = "publish"
    /\ charged' = Charge(charged, frame)
    /\ UNCHANGED <<total_tax, maker_profits, next_order_id, mempool, frame, size, ticks>>
    /\ UNCHANGED <<settle_vars, fr_call, lock_vars, call_vars, book_vars>>
    /\ UNCHANGED sim_vars

miner_loop ==
    \/ LoopCollectGas \/ LoopApplyGasFees \/ MinerPublishFrame
    \/ MinerUpdateHouse \/ MinerTaxMakers \/ make_frame
    \/ MinerNoFrontRun \/ MinerFrontRun

\* the house of MinerInit with the maker holding no inventory, so that a tick
\* that settles nothing taxes nothing and the loop returns to where it was
LoopInit ==
    /\ players = [id \in {INV1, INV2, MKR1, MNR1} |->
                    IF id \in {INV1, INV2} THEN Player_new("Investor", "None")
                    ELSE IF id = MKR1 THEN Player_new("Maker", "Aggressive")
                    ELSE Player_new("Miner", "None")]
    /\ gas_fees = <<>>
    /\ total_tax = 0
    /\ maker_profits = [t \in MakerT |-> 0]
    /\ next_order_id = 1
    /\ InitSettle /\ InitMiner /\ InitExt

LoopNext == InvestorExit \/ investor_task \/ maker_task \/ miner_loop

\* the three loops are threads of their own: each keeps being scheduled
LoopSpec ==
    /\ LoopInit /\ [][LoopNext]_vars
    /\ WF_vars(InvestorExit \/ investor_task)
    /\ WF_vars(maker_task)
    /\ WF_vars(miner_loop)

-----------------------------------------------------------------------------
(* The miner's two front-run strategies, called on frames of every shape *)

RECURSIVE insert_by_price(_, _)
\* o goes behind every order of price <= its own
insert_by_price(sorted, o) ==
    IF sorted = <<>> THEN <<o>>
    ELSE IF Head(sorted).price <= o.price
         THEN <<Head(sorted)>> \o insert_by_price(Tail(sorted), o)
         ELSE <<o>> \o sorted

RECURSIVE sort_by_price(_)
\* orders.sort_by(|a, b| a.price.partial_cmp(&b.price).unwrap()): a stable sort,
\* ascending in price
sort_by_price(items) ==
    IF items = <<>> THEN <<>>
    ELSE insert_by_price(sort_by_price(SubSeq(items, 1, Len(items) - 1)),
                         items[Len(items)])

\* the scan of strategic_front_run over the sorted clone: best_bid is the
\* first bid met, best_ask the last ask met; 0 stands for None
best_bid(orders) ==
    LET B == {i \in 1..Len(orders) : orders[i].trade_type = "Bid"} IN
    IF B = {} THEN 0 ELSE CHOOSE i \in B : \A j \in B : i <= j

best_ask(orders) ==
    LET A == {i \in 1..Len(orders) : orders[i].trade_type = "Ask"} IN
    IF A = {} THEN 0 ELSE CHOOSE i \in A : \A j \in A : i >= j

\* the choice giving up as soon as one of the two profits is negative
front_run_choice_EitherNegative(orders, best_bid_price, best_ask_price) ==
    LET b == best_bid(orders)
        a == best_ask(orders) IN
    IF b = 0 /\ a = 0 THEN 0
    ELSE IF b # 0 /\ a = 0 THEN b
    ELSE IF b = 0 /\ a # 0 THEN a
    ELSE LET bid_profit == best_ask_price - orders[b].price
             ask_profit == orders[a].price - best_bid_price IN
         IF bid_profit < 0 \/ ask_profit < 0 THEN 0
         ELSE IF bid_profit >= ask_profit THEN a ELSE b

\* the index in the sorted clone of the order strategic_front_run copies;
\* 0 stands for its Err returns
front_run_choice(orders, best_bid_price, best_ask_price) ==
    LET b == best_bid(orders)
        a == best_ask(orders) IN
    IF b = 0 /\ a = 0 THEN 0
    ELSE IF b # 0 /\ a = 0 THEN b
    ELSE IF b = 0 /\ a # 0 THEN a
    ELSE LET bid_profit == best_ask_price - orders[b].price
             ask_profit == orders[a].price - best_bid_price IN
         IF bid_profit < 0 /\ ask_profit < 0 THEN 0
         ELSE IF bid_profit >= 0 /\ ask_profit < 0 THEN b
         ELSE IF bid_profit < 0 /\ ask_profit >= 0 THEN a
         ELSE IF bid_profit >= ask_profit THEN a ELSE b

\* Miner::strategic_front_run
strategic_front_run(fr, best_bid_price, best_ask_price, miner_id, o_id) ==
    LET orders == sort_by_price(fr)
        c == IF Len(fr) = 0 THEN 0
             ELSE front_run_choice(orders, best_bid_price, best_ask_price) IN
    IF c = 0 THEN [ok |-> FALSE, frame |-> fr]
    ELSE LET front_run_order == [orders[c] EXCEPT !.trader_id = miner_id, !.gas = 0,
                                                  !.order_id = o_id]
         IN [ok |-> TRUE, frame |-> <<front_run_order>> \o fr]

MaxFrame == 3        \* orders in the frames the front-run strategies are called on
FrontRunPrices == {1, 2, 3}

\* the frame's orders carry the ids 1..Len(frame)
FrameOrders(n) ==
    [1..n -> [trade_type : {"Bid", "Ask"}, price : FrontRunPrices]]

FrameOf(shape) ==
    [i \in 1..Len(shape) |->
        Order_new(INV1, "Enter", shape[i].trade_type, "LimitOrder", shape[i].price,
                  shape[i].price, shape[i].price, 1, 1, i)]

FrontRunInit ==
    /\ InitSettle /\ InitExt
    /\ players = [id \in {INV1, MNR1} |->
                    IF id = INV1 THEN Player_new("Investor", "None")
                    ELSE Player_new("Miner", "None")]
    /\ gas_fees = <<>> /\ total_tax = 0 /\ maker_profits = [t \in MakerT |-> 0]
    /\ mempool = <<>> /\ mpc = "front_run" /\ size = 0 /\ gas_changes = <<>>
    /\ total_gas = 0 /\ tick_pre = NoPlayers /\ ticks = 0
    /\ \E n \in 0..MaxFrame : \E shape \in FrameOrders(n) : frame = FrameOf(shape)
    /\ next_order_id = Len(frame) + 1

\* what a front-run call leaves behind for the properties
FrontRunCalled(how, ok, o_id, bb, ba) ==
    fr_call' = [pc |-> "done", how |-> how, old |-> frame, ok |-> ok, order_id |-> o_id,
                best_bid_price |-> bb, best_ask_price |-> ba]

FrontRunFrame == <<house_vars, mempool, mpc, size, gas_changes,
                   total_gas, tick_pre, ticks, settle_vars, sim_vars, lock_vars, api_vars>>

\* miner.random_front_run() with self.frame.choose(&mut rng) finding no order
RandomFrontRunErr ==
    /\ fr_call.pc = "idle"
    /\ Len(frame) = 0
    /\ FrontRunCalled("random", FALSE, 0, 0, 0)
    /\ UNCHANGED <<frame, next_order_id, FrontRunFrame>>

\* miner.random_front_run() copying a random order of the frame
RandomFrontRunOk ==
    /\ fr_call.pc = "idle"
    /\ \E i \in 1..Len(frame) :
         frame' = random_front_run(frame, i, MNR1, next_order_id).frame
    /\ FrontRunCalled("random", TRUE, next_order_id, 0, 0)
    /\ next_order_id' = next_order_id + 1
    /\ UNCHANGED FrontRunFrame

\* miner.strategic_front_run(best_bid_price, best_ask_price)
StrategicFrontRun ==
    /\ fr_call.pc = "idle"
    /\ \E bb \in FrontRunPrices, ba \in FrontRunPrices :
         LET r == strategic_front_run(frame, bb, ba, MNR1, next_order_id) IN
           /\ frame' = r.frame
           /\ FrontRunCalled("strategic", r.ok, IF r.ok THEN next_order_id ELSE 0, bb, ba)
           /\ next_order_id' = IF r.ok THEN next_order_id + 1 ELSE next_order_id
    /\ UNCHANGED FrontRunFrame

FrontRunNext == RandomFrontRunErr \/ RandomFrontRunOk \/ StrategicFrontRun

FrontRunSpec == FrontRunInit /\ [][FrontRunNext]_vars

-----------------------------------------------------------------------------
(* The Mutexes the three loops take and drop, step by step.  A guard is     *)
(* dropped where its scope ends; a loop is suspended at its sleeps and      *)
(* while it waits for its timer.                                            *)

acq(l) == [k |-> "acq", l |-> l, n |-> 0]
rel(l) == [k |-> "rel", l |-> l, n |-> 0]
\* an if / match arm of n steps that the thread may not enter
opt(n) == [k |-> "opt", l |-> "", n |-> n]
sleep == [k |-> "sleep", l |-> "", n |-> 0]

\* a method that locks the player map for its whole body and nothing else:
\* get_rand_player_id, get_filtered_ids, get_player_order_count,
\* maker_new_orders, update_player_order_vol
players_only_locks == <<acq("players"), rel("players")>>

\* new_order holding the player map past its return
new_order_locks_KeepsGuard == <<acq("players")>>

\* ClearingHouse::new_order
new_order_locks == <<acq("players"), rel("players")>>

\* ClearingHouse::update_player: maker_profits is locked inside the match on
\* players.get_mut, for a Maker
update_player_locks ==
    <<acq("players"), opt(2), acq("maker_profits"), rel("maker_profits"), rel("players")>>

\* ClearingHouse::apply_gas_fees: gas_fees in its own block, then players
apply_gas_fees_locks ==
    <<acq("gas_fees"), rel("gas_fees"), acq("players"), rel("players")>>

\* tax_makers calling get_filtered_ids with the players guard already taken
tax_makers_locks_IdsUnderGuard ==
    <<acq("players")>> \o players_only_locks \o
    <<opt(2), acq("total_tax"), rel("total_tax"), rel("players")>>

\* ClearingHouse::tax_makers: get_filtered_ids, then players held over the
\* loop in which add_tax locks total_tax, for a maker
tax_makers_locks ==
    players_only_locks \o
    <<acq("players"), opt(2), acq("total_tax"), rel("total_tax"), rel("players")>>

\* a MemPool or Book method, under the Mutex of its items
mempool_locks == <<acq("mempool"), rel("mempool")>>
book_locks == <<acq("book"), rel("book")>>

\* BlockNum::read_count, BlockNum::inc_count
block_num_locks == <<acq("block_num"), rel("block_num")>>

\* one tick of investor_task
investor_locks ==
    block_num_locks \o players_only_locks \o new_order_locks \o mempool_locks \o <<sleep>>

\* one tick of maker_task
maker_locks ==
    block_num_locks \o players_only_locks \o mempool_locks \o players_only_locks \o players_only_locks
    \o new_order_locks \o mempool_locks \o new_order_locks \o mempool_locks \o <<sleep>>

\* one tick of miner_task; the books are copied and the house updated when
\* publish_frame returns results
miner_locks ==
    block_num_locks \o apply_gas_fees_locks \o book_locks
    \o <<opt(19)>> \o book_locks \o book_locks
    \o block_num_locks \o block_num_locks \o block_num_locks \o block_num_locks
    \o update_player_locks \o players_only_locks
    \o tax_makers_locks \o <<sleep>>
    \o mempool_locks \o mempool_locks \o mempool_locks
    \o new_order_locks \o <<sleep>>

LocksOf(t) ==
    IF t = "investor" THEN investor_locks
    ELSE IF t = "maker" THEN maker_locks ELSE miner_locks

\* the step thread t is at
At(t) == LocksOf(t)[lpc[t]]

\* the position after the one at i, a tick following the other
After(t, i) == IF i >= Len(LocksOf(t)) THEN 1 ELSE i + 1

LockFrame == <<house_vars, next_order_id, miner_vars, settle_vars, fr_call, sim_vars,
               api_vars>>

\* mutex.lock(): the thread goes on when the Mutex is free
LockAcquire(t) ==
    /\ At(t).k = "acq"
    /\ lock_owner[At(t).l] = "free"
    /\ lock_owner' = [lock_owner EXCEPT ![At(t).l] = t]
    /\ lpc' = [lpc EXCEPT ![t] = After(t, @)]
    /\ UNCHANGED LockFrame

\* the guard goes out of scope
LockRelease(t) ==
    /\ At(t).k = "rel"
    /\ lock_owner' = [lock_owner EXCEPT ![At(t).l] = IF @ = t THEN "free" ELSE @]
    /\ lpc' = [lpc EXCEPT ![t] = After(t, @)]
    /\ UNCHANGED LockFrame

\* the arm is entered
LockArmTaken(t) ==
    /\ At(t).k = "opt"
    /\ lpc' = [lpc EXCEPT ![t] = After(t, @)]
    /\ UNCHANGED <<lock_owner, LockFrame>>

\* the arm is passed over
LockArmSkipped(t) ==
    /\ At(t).k = "opt"
    /\ lpc' = [lpc EXCEPT ![t] = @ + At(t).n + 1]
    /\ UNCHANGED <<lock_owner, LockFrame>>

\* thread::sleep, or the wait for the next tick, is over
LockWake(t) ==
    /\ At(t).k = "sleep"
    /\ lpc' = [lpc EXCEPT ![t] = After(t, @)]
    /\ UNCHANGED <<lock_owner, LockFrame>>

LockNext ==
    \E t \in Threads :
        \/ LockAcquire(t) \/ LockRelease(t)
        \/ LockArmTaken(t) \/ LockArmSkipped(t)
        \/ LockWake(t)

LockSpec == MinerInit /\ [][LockNext]_vars

\* the locks thread t holds
HeldBy(t) == {l \in Locks : lock_owner[l] = t}

-----------------------------------------------------------------------------
(* The ClearingHouse called operation by operation: each call is recorded   *)
(* with its arguments, its answer and the house it found                    *)

MarketTypes == {"CDA", "FBA", "KLF"}
CallIds == {INV1, MKR1, MNR1, GHOST}

\* init_simulation has registered an investor, two makers and the miner; the
\* makers' balance and inventory are sampled
HouseInit ==
    /\ \E inv1 \in {-2, 1}, inv2 \in {0, 3} :
         players = [id \in {INV1, MKR1, MKR2, MNR1} |->
                      IF id = INV1 THEN Player_new("Investor", "None")
                      ELSE IF id = MKR1
                      THEN [Player_new("Maker", "Aggressive") EXCEPT
                              !.balance = 500, !.inventory = inv1]
                      ELSE IF id = MKR2
                      THEN [Player_new("Maker", "RiskAverse") EXCEPT
                              !.balance = 55, !.inventory = inv2]
                      ELSE Player_new("Miner", "None")]
    /\ gas_fees = <<>>
    /\ total_tax = 0
    /\ maker_profits = [t \in MakerT |-> 0]
    /\ next_order_id = 1
    /\ InitSettle /\ InitMiner /\ InitExt

\* the record of a call
HouseCall(op, id, o_id, bal, inv, ok, ret, orders) ==
    [op |-> op, id |-> id, order_id |-> o_id, bal |-> bal, inv |-> inv, ok |-> ok, ret |-> ret,
     orders |-> orders, players |-> players, total_tax |-> total_tax,
     maker_profits |-> maker_profits, pc |-> "done", seen |-> <<>>]

HouseFrame ==
    <<gas_fees, miner_vars, settle_vars, fr_call, sim_vars, lock_vars, book_vars, gas_vars>>
HouseFrameLocked ==
    <<gas_fees, miner_vars, settle_vars, fr_call, sim_vars, lpc, book_vars, gas_vars>>

\* the calling thread is between two calls
HouseIdle == h_count < MaxCalls /\ h_call.pc = "done"

\* one tick of investor_task on any market: the order it builds goes to
\* new_order
HouseInvestorOrder ==
    /\ HouseIdle
    /\ \E trade_type \in {"Bid", "Ask"}, market_type \in MarketTypes :
         LET order == investor_order(INV1, trade_type, market_type, 3, 2, 1,
                                     next_order_id)
             r == new_order(players, order) IN
         /\ players' = r.players
         /\ h_call' = HouseCall("investor_task", INV1, 0, 0, 0, r.ok, <<>>, <<order>>)
    /\ next_order_id' = next_order_id + 1
    /\ h_count' = h_count + 1
    /\ UNCHANGED <<total_tax, maker_profits, HouseFrame>>

\* players handed to the reg_ operations: fresh ones, and ones whose balance
\* and inventory were set before registration
RegIds == {INV1, INV2, MKR1}
NewInvestors ==
    {[Investor_new(id) EXCEPT !.player.balance = b, !.player.inventory = b] :
        id \in RegIds, b \in {0, 55}}
NewMakers == {Maker_new(id, t) : id \in RegIds, t \in {"Aggressive", "Random"}}
NewMiners == {Miner_new(id) : id \in RegIds}

\* the vectors handed to the reg_n_ operations
PairsOf(S) == {<<a, b>> : a \in {x \in S : x.trader_id # MKR1}, b \in {x \in S : x.trader_id = INV2}}

HouseRegistered(op, ps, list) ==
    /\ players' = ps
    /\ h_call' = HouseCall(op, "", 0, 0, 0, TRUE, num_players(ps), list)
    /\ h_count' = h_count + 1
    /\ UNCHANGED <<total_tax, maker_profits, next_order_id, HouseFrame>>

HouseRegInvestor ==
    /\ HouseIdle
    /\ \E inv \in NewInvestors :
         HouseRegistered("reg_investor", reg_investor(players, inv), <<inv>>)

HouseRegMaker ==
    /\ HouseIdle
    /\ \E maker \in NewMakers :
         HouseRegistered("reg_maker", reg_maker(players, maker), <<maker>>)

HouseRegMiner ==
    /\ HouseIdle
    /\ \E miner \in NewMiners :
         HouseRegistered("reg_miner", reg_miner(players, miner), <<miner>>)

HouseRegNInvestors ==
    /\ HouseIdle
    /\ \E investors \in PairsOf(NewInvestors) :
         HouseRegistered("reg_n_investors", reg_n_investors(players, investors), investors)

HouseRegNMakers ==
    /\ HouseIdle
    /\ \E makers \in PairsOf(NewMakers) :
         HouseRegistered("reg_n_makers", reg_n_makers(players, makers), makers)

\* an Enter order of the trader, as the callers of new_order build it
EnterOrder(trader_id, o_id) ==
    Order_new(trader_id, "Enter", "Bid", "LimitOrder", 0, 0, 3, 2, 1, o_id)

HouseNewOrder ==
    /\ HouseIdle
    /\ \E trader_id \in CallIds :
         LET order == EnterOrder(trader_id, next_order_id)
             r == new_order(players, order) IN
         /\ players' = r.players
         /\ h_call' = HouseCall("new_order", trader_id, 0, 0, 0, r.ok, <<>>, <<order>>)
    /\ next_order_id' = next_order_id + 1
    /\ h_count' = h_count + 1
    /\ UNCHANGED <<total_tax, maker_profits, HouseFrame>>

HouseNewOrders ==
    /\ HouseIdle
    /\ \E t1 \in {INV1, MKR1, GHOST}, t2 \in {INV1, MKR1, GHOST} :
         LET orders == <<EnterOrder(t1, next_order_id), EnterOrder(t2, next_order_id + 1)>>
             r == new_orders(players, orders) IN
         /\ players' = r.players
         /\ h_call' = HouseCall("new_orders", "", 0, 0, 0, r.ok, <<>>, orders)
    /\ next_order_id' = next_order_id + 2
    /\ h_count' = h_count + 1
    /\ UNCHANGED <<total_tax, maker_profits, HouseFrame>>

HouseCancelOrder ==
    /\ HouseIdle
    /\ \E trader_id \in CallIds, order_id \in OrderIds :
         LET r == cancel_player_order(players, trader_id, order_id) IN
         /\ players' = r.players
         /\ h_call' = HouseCall("cancel_player_order", trader_id, order_id, 0, 0, r.ok,
                                <<>>, <<>>)
    /\ h_count' = h_count + 1
    /\ UNCHANGED <<total_tax, maker_profits, next_order_id, HouseFrame>>

UpdateIds == CallIds \cup {MKR2}

\* update_player up to player.update_inv: the players lock is taken, and an
\* unknown id ends the call with None
HouseUpdatePlayer ==
    /\ HouseIdle
    /\ lock_owner["players"] = "free"
    /\ \E id \in UpdateIds, bal_to_add \in {-40, 5}, inv_to_add \in {20} :
         LET call == HouseCall("update_player", id, 0, bal_to_add, inv_to_add,
                               id \in DOMAIN players, <<>>, <<>>) IN
         IF id \in DOMAIN players
         THEN /\ lock_owner' = update_player_guard(lock_owner, "miner")
              /\ players' = [players EXCEPT ![id] = update_inv(@, inv_to_add)]
              /\ h_call' = [call EXCEPT !.pc = "update_bal"]
              /\ UNCHANGED h_count
         ELSE /\ h_call' = call
              /\ h_count' = h_count + 1
              /\ UNCHANGED <<players, lock_owner>>
    /\ UNCHANGED <<total_tax, maker_profits, next_order_id, HouseFrameLocked>>

\* update_player from player.update_bal to its return, where the guard drops
HouseUpdatePlayerBal ==
    /\ h_call.pc = "update_bal"
    /\ players' = [players EXCEPT ![h_call.id] = update_bal(@, h_call.bal)]
    /\ maker_profits' = update_player_profits(maker_profits, players, h_call.id, h_call.bal)
    /\ h_call' = [h_call EXCEPT !.pc = "done",
                                 !.ret = get_bal_inv(players', h_call.id)]
    /\ h_count' = h_count + 1
    /\ lock_owner' = [lock_owner EXCEPT !["players"] = "free"]
    /\ UNCHANGED <<total_tax, next_order_id, HouseFrameLocked>>

\* another thread reads the player of the call with get_bal_inv
HouseGetBalInv ==
    /\ h_call.op = "update_player" /\ h_call.seen = <<>>
    /\ h_call.id \in DOMAIN players
    /\ lock_owner["players"] = "free"
    /\ h_call' = [h_call EXCEPT !.seen = get_bal_inv(players, h_call.id)]
    /\ UNCHANGED <<house_vars, next_order_id, h_count, HouseFrame>>

HouseUpdatePlayerBalOnly ==
    /\ HouseIdle
    /\ \E id \in CallIds, bal_to_add \in {40} :
         LET r == update_player_bal(players, id, bal_to_add) IN
         /\ players' = r.players
         /\ h_call' = HouseCall("update_player_bal", id, 0, bal_to_add, 0, r.ok, r.ret, <<>>)
    /\ h_count' = h_count + 1
    /\ UNCHANGED <<total_tax, maker_profits, next_order_id, HouseFrame>>

HouseUpdatePlayerInvOnly ==
    /\ HouseIdle
    /\ \E id \in CallIds, inv_to_add \in {-40} :
         LET r == update_player_inv(players, id, inv_to_add) IN
         /\ players' = r.players
         /\ h_call' = HouseCall("update_player_inv", id, 0, 0, inv_to_add, r.ok, r.ret, <<>>)
    /\ h_count' = h_count + 1
    /\ UNCHANGED <<total_tax, maker_profits, next_order_id, HouseFrame>>

\* the record of a call that takes one number
HouseCallOf(op, arg) ==
    [op |-> op, arg |-> arg, players |-> players, total_tax |-> total_tax,
     maker_profits |-> maker_profits, pc |-> "done"]

HouseTaxMakers ==
    /\ HouseIdle
    /\ \E tax \in {0, 1, 2} :
         LET r == tax_makers(players, tax) IN
         /\ players' = r.players
         /\ total_tax' = total_tax + r.tax_amt
         /\ h_call' = HouseCallOf("tax_makers", tax)
    /\ h_count' = h_count + 1
    /\ UNCHANGED <<maker_profits, next_order_id, HouseFrame>>

HouseLiquidate ==
    /\ HouseIdle
    /\ \E fund_val \in {2, 100} :
         LET r == liquidate(players, maker_profits, fund_val) IN
         /\ players' = r.players
         /\ maker_profits' = r.maker_profits
         /\ h_call' = HouseCallOf("liquidate", fund_val)
    /\ h_count' = h_count + 1
    /\ UNCHANGED <<total_tax, next_order_id, HouseFrame>>

\* gen_trader_id(trader_type): the k-th id handed out for a type
gen_trader_id(trader_type, k) ==
    IF trader_type = "Investor" THEN <<INV1, INV2, "INV3">>[k]
    ELSE IF trader_type = "Maker" THEN <<MKR1, MKR2, "MKR3">>[k]
    ELSE <<MNR1, "MNR2">>[k]

\* Simulation::setup_investors: for _ in 1..consts.num_investors, each
\* investor with a sampled balance and inventory
setup_investors(num_investors, sample) ==
    [k \in 1..(num_investors - 1) |->
        [Investor_new(gen_trader_id("Investor", k)) EXCEPT
            !.player.balance = sample, !.player.inventory = sample]]

\* Simulation::setup_makers: for _ in 1..consts.num_makers, each maker of a
\* random type with a sampled balance and inventory
setup_makers(num_makers, maker_type, sample) ==
    [k \in 1..(num_makers - 1) |->
        [Maker_new(gen_trader_id("Maker", k), maker_type) EXCEPT
            !.player.balance = sample, !.player.inventory = sample]]

\* Simulation::init_simulation: the players of the ClearingHouse it returns
init_simulation(num_investors, num_makers, maker_type, sample) ==
    LET house == NoPlayers
        ch_miner == Miner_new(gen_trader_id("Miner", 1))
        with_miner == reg_miner(house, ch_miner)
        invs == setup_investors(num_investors, sample)
        with_invs == reg_n_investors(with_miner, invs)
        mkrs == setup_makers(num_makers, maker_type, sample)
    IN reg_n_makers(with_invs, mkrs)

\* a simulation is initialised: a new ClearingHouse with its players
HouseInitSimulation ==
    /\ HouseIdle
    /\ \E num_investors \in 1..MaxNumPlayers, num_makers \in 1..MaxNumPlayers,
          maker_type \in {"Aggressive", "Random"}, sample \in {0, 55} :
         /\ players' = init_simulation(num_investors, num_makers, maker_type, sample)
         /\ h_call' = HouseCallOf("init_simulation",
                                  [num_investors |-> num_investors,
                                   num_makers |-> num_makers])
    /\ total_tax' = 0
    /\ maker_profits' = [t \in MakerT |-> 0]
    /\ h_count' = h_count + 1
    /\ UNCHANGED <<next_order_id, HouseFrame>>

\* before init_simulation: no ClearingHouse player yet
SimInit ==
    /\ players = NoPlayers
    /\ gas_fees = <<>>
    /\ total_tax = 0
    /\ maker_profits = [t \in MakerT |-> 0]
    /\ next_order_id = 1
    /\ InitSettle /\ InitMiner /\ InitExt

\* a simulation is initialised and orders are sent to its ClearingHouse
SimNext == HouseInitSimulation \/ HouseNewOrder \/ HouseNewOrders

SimSpec == SimInit /\ [][SimNext]_vars

HouseNext ==
    \/ HouseTaxMakers \/ HouseLiquidate
    \/ HouseUpdatePlayer \/ HouseUpdatePlayerBal \/ HouseGetBalInv
    \/ HouseUpdatePlayerBalOnly \/ HouseUpdatePlayerInvOnly
    \/ HouseInvestorOrder
    \/ HouseNewOrder \/ HouseNewOrders \/ HouseCancelOrder
    \/ HouseRegInvestor \/ HouseRegMaker \/ HouseRegMiner
    \/ HouseRegNInvestors \/ HouseRegNMakers

HouseSpec == HouseInit /\ [][HouseNext]_vars

-----------------------------------------------------------------------------
(* The two Books and the CDA cross, order by order as seq_process_orders    *)
(* hands them over                                                          *)

BookOf(t) == IF t = "Bid" THEN bids_book ELSE asks_book

\* the resting order o has a strictly worse price than the order new on side t
worse(o, new, t) == IF t = "Bid" THEN o.price < new.price ELSE o.price > new.price

\* insert going ahead of the resting orders of its price level
insert_AheadOfLevel(book, order, t) ==
    LET Behind == {i \in 1..Len(book) : worse(book[i], order, t) \/ book[i].price = order.price}
        k == IF Behind = {} THEN Len(book)
             ELSE (CHOOSE i \in Behind : \A j \in Behind : i <= j) - 1 IN
    SubSeq(book, 1, k) \o <<order>> \o SubSeq(book, k + 1, Len(book))

\* Book insert: behind the resting orders of a better or the same price
insert(book, order, t) ==
    LET Behind == {i \in 1..Len(book) : worse(book[i], order, t)}
        k == IF Behind = {} THEN Len(book)
             ELSE (CHOOSE i \in Behind : \A j \in Behind : i <= j) - 1 IN
    SubSeq(book, 1, k) \o <<order>> \o SubSeq(book, k + 1, Len(book))

\* Book cancel: remove by id, failing when absent
cancel(book, o_id) ==
    LET i == position(book, o_id) IN
    IF i # 0 THEN [ok |-> TRUE, orders |-> remove(book, i)]
             ELSE [ok |-> FALSE, orders |-> book]

\* Book update: cancel, then insert
update(book, order, t) == insert(cancel(book, order.order_id).orders, order, t)

\* the incoming order's price reaches the resting order's
crosses(incoming, resting) ==
    IF incoming.trade_type = "Bid" THEN incoming.price >= resting.price
    ELSE incoming.price <= resting.price

Min(a, b) == IF a < b THEN a ELSE b

\* a cross trading at the incoming order's price
trade_price_Incoming(incoming, resting) == incoming.price

\* maker-price rule
trade_price(incoming, resting) == resting.price

\* the PlayerUpdate of one match: the bid side pays, the ask side fills
match_update(incoming, resting, volume) ==
    LET bid == IF incoming.trade_type = "Bid" THEN incoming ELSE resting
        ask == IF incoming.trade_type = "Bid" THEN resting ELSE incoming IN
    [payer_id |-> bid.trader_id, payer_order_id |-> bid.order_id,
     vol_filler_id |-> ask.trader_id, vol_filler_order_id |-> ask.order_id,
     price |-> trade_price(incoming, resting), volume |-> volume, cancel |-> FALSE]

\* CDA cross of an incoming Enter order against the opposite book: what is
\* left of the order, of the book, and the PlayerUpdates emitted
RECURSIVE cda_cross(_, _, _)
cda_cross(incoming, opposite, updates) ==
    IF incoming.quantity > 0 /\ opposite # <<>> /\ crosses(incoming, Head(opposite))
    THEN LET resting == Head(opposite)
             volume == Min(incoming.quantity, resting.quantity)
             left == IF resting.quantity - volume = 0 THEN Tail(opposite)
                     ELSE <<[resting EXCEPT !.quantity = @ - volume]>> \o Tail(opposite) IN
         cda_cross([incoming EXCEPT !.quantity = @ - volume], left,
                   Append(updates, match_update(incoming, resting, volume)))
    ELSE [incoming |-> incoming, opposite |-> opposite, updates |-> updates]

BookPrices == {90, 95}
BookQuantities == {2, 5}
Opposite(t) == IF t = "Bid" THEN "Ask" ELSE "Bid"

\* the order an investor (bids) or a maker (asks) sends
BookOrder(o_t, t, p, q, o_id) ==
    Order_new(IF t = "Bid" THEN INV1 ELSE MKR1, o_t, t, "LimitOrder", 0, 0, p, q, 1, o_id)

\* empty books on a CDA or a batch market
BookInit ==
    /\ InitHouse /\ InitSettle /\ InitMiner /\ InitFrontRun /\ InitSim /\ InitLocks
    /\ InitCalls
    /\ charged = <<>>
    /\ bids_book = <<>>
    /\ asks_book = <<>>
    /\ bk_count = 0
    /\ \E market \in {"CDA", "FBA"} : bk_call = [NoBookCall EXCEPT !.market = market]

BookFrame ==
    <<house_vars, miner_vars, settle_vars, fr_call, sim_vars, lock_vars, call_vars, gas_vars>>

\* the processing of one order, recorded; an order that comes to rest is
\* stamped, by side and id, with the time of its insertion
Processed(op, order, found, rests, updates) ==
    /\ bk_call' = [market |-> bk_call.market, op |-> op, order |-> order,
                   bids |-> bids_book, asks |-> asks_book, updates |-> updates,
                   found |-> found,
                   entered |-> IF rests
                               THEN LET key == <<order.trade_type, order.order_id>> IN
                                    [k \in DOMAIN bk_call.entered \cup {key} |->
                                       IF k = key THEN bk_count + 1
                                       ELSE bk_call.entered[k]]
                               ELSE bk_call.entered]
    /\ bk_count' = bk_count + 1

\* Enter on FBA or KLF: the order is inserted and the clearing deferred
BookEnterInsert ==
    /\ bk_count < MaxBookOrders
    /\ bk_call.market # "CDA"
    /\ \E t \in {"Bid", "Ask"}, p \in BookPrices, q \in BookQuantities :
         LET order == BookOrder("Enter", t, p, q, next_order_id) IN
         /\ bids_book' = IF t = "Bid" THEN insert(bids_book, order, t) ELSE bids_book
         /\ asks_book' = IF t = "Ask" THEN insert(asks_book, order, t) ELSE asks_book
         /\ Processed("insert", order, FALSE, TRUE, <<>>)
    /\ next_order_id' = next_order_id + 1
    /\ UNCHANGED BookFrame

\* Enter on CDA: the order is crossed against the opposite book and what is
\* left of it rests
BookEnterCross ==
    /\ bk_count < MaxBookOrders
    /\ bk_call.market = "CDA"
    /\ \E t \in {"Bid", "Ask"}, p \in BookPrices, q \in BookQuantities :
         LET order == BookOrder("Enter", t, p, q, next_order_id)
             r == cda_cross(order, BookOf(Opposite(t)), <<>>)
             rests == r.incoming.quantity > 0
             own == IF rests THEN insert(BookOf(t), r.incoming, t) ELSE BookOf(t) IN
         /\ bids_book' = IF t = "Bid" THEN own ELSE r.opposite
         /\ asks_book' = IF t = "Ask" THEN own ELSE r.opposite
         /\ Processed("cross", order, FALSE, rests, r.updates)
    /\ next_order_id' = next_order_id + 1
    /\ UNCHANGED BookFrame

\* Update: cancel, then insert; an Update of an order that does not rest may
\* or may not bring the order in
BookUpdate ==
    /\ bk_count < MaxBookOrders
    /\ \E t \in {"Bid", "Ask"}, o_id \in 1..MaxBookOrders, p \in BookPrices,
          enters \in BOOLEAN :
         LET order == BookOrder("Update", t, p, 2, o_id)
             found == cancel(BookOf(t), o_id).ok
             rests == found \/ enters
             new == IF rests THEN update(BookOf(t), order, t) ELSE BookOf(t) IN
         /\ o_id < next_order_id
         /\ found => enters
         /\ bids_book' = IF t = "Bid" THEN new ELSE bids_book
         /\ asks_book' = IF t = "Ask" THEN new ELSE asks_book
         /\ Processed("update", order, found, rests, <<>>)
    /\ UNCHANGED <<next_order_id, BookFrame>>

\* Cancel: the order leaves its book
BookCancel ==
    /\ bk_count < MaxBookOrders
    /\ \E t \in {"Bid", "Ask"}, o_id \in 1..MaxBookOrders :
         LET order == BookOrder("Cancel", t, 0, 0, o_id)
             r == cancel(BookOf(t), o_id) IN
         /\ o_id < next_order_id
         /\ bids_book' = IF t = "Bid" THEN r.orders ELSE bids_book
         /\ asks_book' = IF t = "Ask" THEN r.orders ELSE asks_book
         /\ Processed("cancel", order, r.ok, FALSE, <<>>)
    /\ UNCHANGED <<next_order_id, BookFrame>>

BookNext == BookEnterInsert \/ BookEnterCross \/ BookUpdate \/ BookCancel

BookSpec == BookInit /\ [][BookNext]_vars

-----------------------------------------------------------------------------
(* C1 *)

\* C1 as stated: once update_house has returned, for CDA, FBA and KLF alike,
\* the balances still sum to what they summed to on entry and so do the
\* inventories.
C1_ConservationAllAuctions ==
    pc = "returned" => Totals(players) = uh_pre

\* C1, amended: a CDA or FBA TradeResults applied to completion leaves the sum
\* of the balances and the sum of the inventories unchanged; a KLF TradeResults
\* changes the sum of the balances by the payments of its ask fills minus the
\* payments of its bid fills and the sum of the inventories by the volume of
\* its bid fills minus the volume of its ask fills (zero only when they balance).
C1_Conservation ==
    pc = "returned" =>
        IF results.auction_type \in {"CDA", "FBA"}
        THEN Totals(players) = uh_pre
        ELSE /\ Totals(players).balance = uh_pre.balance + flow.payment
             /\ Totals(players).inventory = uh_pre.inventory + flow.volume

C1_Witness ==
    /\ pc = "returned"
    /\ results.auction_type = "FBA"
    /\ players[INV1].balance = -6 /\ players[INV1].inventory = 2
    /\ players[MKR1].balance = 6 /\ players[MKR1].inventory = -2

-----------------------------------------------------------------------------
(* C2 *)

C2_Pre ==
    /\ Fill
    /\ results.auction_type \in {"CDA", "FBA"}
    /\ cur.volume > 0
    /\ Held(pu_pre, cur.payer_id, cur.payer_order_id) # {}
    /\ Held(pu_pre, cur.vol_filler_id, cur.vol_filler_order_id) # {}

\* C2: in cda_cross_update and fba_batch_update a fill of volume v > 0 at price
\* p between a registered payer and a registered vol_filler that hold the two
\* orders is never aborted, and once the loop body is through every player's
\* balance has changed by -p*v for being the payer plus +p*v for being the
\* vol_filler, its inventory by +v and -v likewise, both referenced orders
\* have v less, and nothing else in the ledger has changed.
C2_FillEffect ==
    C2_Pre =>
        /\ pc # "panicked"
        /\ pc = "next" =>
            /\ outcome = "applied"
            /\ \A id \in DOMAIN players :
                /\ players[id].balance = pu_pre[id].balance
                      - (IF id = cur.payer_id THEN cur.price * cur.volume ELSE 0)
                      + (IF id = cur.vol_filler_id THEN cur.price * cur.volume ELSE 0)
                /\ players[id].inventory = pu_pre[id].inventory
                      + (IF id = cur.payer_id THEN cur.volume ELSE 0)
                      - (IF id = cur.vol_filler_id THEN cur.volume ELSE 0)
            /\ Decremented(pu_pre, players, cur.payer_id, cur.payer_order_id, cur.volume)
            /\ Decremented(pu_pre, players, cur.vol_filler_id, cur.vol_filler_order_id,
                           cur.volume)

\* bid 3 x 2 by INV1 hit for 1 by MKR1: INV1 -3/+1, MKR1 +3/-1, INV1's order left with 1
C2_Witness ==
    /\ C2_Pre
    /\ pc = "next"
    /\ results.auction_type = "CDA"
    /\ cur.payer_id = INV1 /\ cur.vol_filler_id = MKR1 /\ cur.volume = 1
    /\ players[INV1].balance = -3 /\ players[INV1].inventory = 1
    /\ players[MKR1].balance = 3 /\ players[MKR1].inventory = -1
    /\ Held(players, INV1, cur.payer_order_id) = {1}

-----------------------------------------------------------------------------
(* C4 *)

\* C4: in the three settlement routines a fill that names a registered player
\* who does not hold the referenced order does not abort the routine (the
\* missing order is skipped and the loop goes on).
C4_MissingOrderNotFatal ==
    ~(/\ pc = "panicked"
      /\ Fill
      /\ last.trader_id \in DOMAIN players
      /\ ~last.held)

-----------------------------------------------------------------------------
(* C5 *)

\* the bidder of the PlayerUpdate: its payer, except in a KLF update whose
\* payer is the sentinel, which is an ask fill and has no bidder
HasBidder == results.auction_type # "KLF" \/ cur.payer_id # id_check

\* C5: in the three settlement routines a fill of non-zero volume whose bidder
\* is not registered aborts: the loop body never completes (cda/fba panic on
\* update_player's None, KLF on the order update that follows) and the ledger
\* is left as it was.
C5_MissingBidderAborts ==
    (Fill /\ cur.volume # 0 /\ HasBidder /\ cur.payer_id \notin DOMAIN players) =>
        /\ pc \in (IF results.auction_type = "KLF" THEN {"bid_vol", "panicked"}
                   ELSE {"panicked"})
        /\ players = pu_pre

C5_Witness ==
    /\ Fill /\ cur.volume # 0 /\ cur.payer_id = GHOST
    /\ results.auction_type = "KLF"
    /\ cur.vol_filler_id = INV1
    /\ Held(players, INV1, cur.vol_filler_order_id) # {}
    /\ pc = "panicked"

-----------------------------------------------------------------------------
(* C6 *)

\* C6: after update_player_order_vol(trader, order_id, delta) has succeeded,
\* whatever the kind of the player, the order has quantity old + delta when
\* that is > 0 and is no longer in the player's list when old + delta <= 0.
C6_OrderVolUpdated ==
    last.ok =>
        IF last.old + last.vol_to_add > 0
        THEN Held(players, last.trader_id, last.order_id) = {last.old + last.vol_to_add}
        ELSE Held(players, last.trader_id, last.order_id) = {}

-----------------------------------------------------------------------------
(* C7 *)

\* C7: in the three settlement routines a PlayerUpdate with cancel = true never
\* aborts; it removes order payer_order_id from player payer_id's list, leaves
\* every other order and every balance and inventory as they were, and leaves
\* the whole state as it was when the player or the order is absent; the loop
\* then goes on.
C7_CancelEffect ==
    (cur # NoUpdate /\ cur.cancel) =>
        /\ pc = "next"
        /\ SameLedger(pu_pre, players)
        /\ IF Held(pu_pre, cur.payer_id, cur.payer_order_id) = {}
           THEN players = pu_pre /\ outcome = "cancel_failed"
           ELSE /\ outcome = "cancelled"
                /\ players[cur.payer_id].orders =
                      Others(pu_pre, cur.payer_id, cur.payer_order_id)
                /\ Len(players[cur.payer_id].orders) =
                      Len(pu_pre[cur.payer_id].orders) - 1
                /\ \A id \in DOMAIN players \ {cur.payer_id} :
                      players[id] = pu_pre[id]

C7_Witness ==
    /\ cur # NoUpdate /\ cur.cancel
    /\ results.auction_type = "KLF"
    /\ outcome = "cancelled"
    /\ cur.payer_id = MKR1
    /\ Len(pu_pre[MKR1].orders) = 2
    /\ Len(players[MKR1].orders) = 1
    /\ remaining = 2

-----------------------------------------------------------------------------
(* C8 *)

\* C8: in the three settlement routines a PlayerUpdate with volume 0 and
\* cancel = false is skipped: nothing changes, and no player or order lookup
\* is made that could abort the routine.
C8_ZeroVolumeSkipped ==
    (Fill /\ cur.volume = 0) =>
        /\ players = pu_pre
        /\ pc # "panicked"

-----------------------------------------------------------------------------
(* C9 *)

\* the player and the order a KLF fill is settled on, and the signs
C9_Side ==
    IF cur.payer_id = id_check
    THEN [id |-> cur.vol_filler_id, order_id |-> cur.vol_filler_order_id, sign |-> 1]
    ELSE [id |-> cur.payer_id, order_id |-> cur.payer_order_id, sign |-> -1]

\* C9: once flow_batch_update is through a fill whose payer_id is "N/A", only
\* vol_filler_id's balance (+price*volume) and inventory (-volume) have
\* changed and order vol_filler_order_id has volume less; with any other
\* payer_id only payer_id's balance (-price*volume) and inventory (+volume)
\* have changed and order payer_order_id has volume less.
C9_FlowSides ==
    (Fill /\ results.auction_type = "KLF" /\ pc = "next") =>
        /\ outcome = "applied"
        /\ C9_Side.id \in DOMAIN players
        /\ \A id \in DOMAIN players :
            IF id = C9_Side.id
            THEN /\ players[id].balance =
                        pu_pre[id].balance + C9_Side.sign * cur.price * cur.volume
                 /\ players[id].inventory =
                        pu_pre[id].inventory - C9_Side.sign * cur.volume
                 /\ Others(players, id, C9_Side.order_id) =
                        Others(pu_pre, id, C9_Side.order_id)
            ELSE players[id] = pu_pre[id]
        /\ Held(pu_pre, C9_Side.id, C9_Side.order_id) # {}
        /\ Decremented(pu_pre, players, C9_Side.id, C9_Side.order_id, cur.volume)

C9_Witness ==
    /\ Fill /\ results.auction_type = "KLF" /\ pc = "next"
    /\ cur.payer_id = id_check /\ cur.vol_filler_id = MKR1 /\ cur.volume = 1
    /\ players[MKR1].balance = 3 /\ players[MKR1].inventory = -1
    /\ Held(players, MKR1, cur.vol_filler_order_id) = {1}

-----------------------------------------------------------------------------
(* C3 *)

\* the gas of the orders of fr that trader id submitted
GasOf(fr, id) ==
    LET idx == {i \in 1..Len(fr) : fr[i].trader_id = id}
        gas_at[S \in SUBSET idx] ==
            IF S = {} THEN 0
            ELSE LET i == CHOOSE x \in S : TRUE IN fr[i].gas + gas_at[S \ {i}]
    IN gas_at[idx]

FrameGas(fr) ==
    LET gas_to[n \in 0..Len(fr)] == IF n = 0 THEN 0 ELSE gas_to[n - 1] + fr[n].gas
    IN gas_to[Len(fr)]

\* C3: when a miner tick has applied apply_gas_fees to collect_gas's output,
\* every submitter of the frame has paid the gas of its orders in the frame,
\* which is the frame's gas in total, the miner's balance has gone up by the
\* frame's gas, and the frame's gas is the entry appended to gas_fees.
C3_GasConserved ==
    mpc = "publish" =>
        /\ \A id \in DOMAIN players \ {MNR1} :
              tick_pre[id].balance - players[id].balance = GasOf(frame, id)
        /\ \A i \in 1..Len(frame) : frame[i].trader_id \in DOMAIN players
        /\ GasOf(frame, MNR1) = 0
        /\ players[MNR1].balance - tick_pre[MNR1].balance = FrameGas(frame)
        /\ Len(gas_fees) = ticks
        /\ gas_fees[Len(gas_fees)] = FrameGas(frame)
        /\ \A id \in DOMAIN players : players[id].inventory = tick_pre[id].inventory

C3_Witness ==
    /\ mpc = "publish"
    /\ Len(frame) = 2
    /\ frame[1].trader_id = INV1 /\ frame[1].gas = 2
    /\ frame[2].trader_id = INV2 /\ frame[2].gas = 1
    /\ players[MNR1].balance = 3
    /\ players[INV1].balance = -2
    /\ players[INV2].balance = -1
    /\ gas_fees = <<0, 3>>

-----------------------------------------------------------------------------
(* C10 *)

\* C10: when make_frame has returned, the frame holds at most block_size
\* orders, whatever the investor loop pushed meanwhile.
C10_FrameWithinBlockSize ==
    mpc = "front_run" => Len(frame) <= block_size

-----------------------------------------------------------------------------
(* C11 *)

\* fr lists its orders in non-increasing gas, equal-gas orders in submission
\* order (order ids are handed out in submission order)
GasOrdered(fr) ==
    \A i, j \in 1..Len(fr) :
        i < j => \/ fr[i].gas > fr[j].gas
                 \/ fr[i].gas = fr[j].gas /\ fr[i].order_id < fr[j].order_id

\* C11: every step in which make_frame pops the mempool into the frame yields
\* a frame in non-increasing gas with equal-gas orders in submission order,
\* and leaves no order in the mempool with more gas than an order of the
\* frame, whatever was pushed to the mempool while make_frame was running.
C11_FrameGasOrdered ==
    [][(mpc = "pop" /\ mpc' = "front_run") =>
          /\ GasOrdered(frame')
          /\ \A i \in 1..Len(mempool'), j \in 1..Len(frame') :
                mempool'[i].gas <= frame'[j].gas]_vars

-----------------------------------------------------------------------------
(* C12 *)

\* order o is order c of some frame, copied for the miner: the miner's id,
\* gas 0, order id o_id, every other field c's
FrontRunCopyOf(o, c, o_id) ==
    o = [c EXCEPT !.trader_id = MNR1, !.gas = 0, !.order_id = o_id]

\* C12: when random_front_run or strategic_front_run has returned Ok, the
\* frame is the inserted order followed by the old frame in its old order, and
\* the inserted order is one order of the old frame but for the miner's id,
\* gas 0 and an order id no order of the old frame carries; when it has
\* returned Err the frame is the old frame.
C12_FrontRunInsertsCopy ==
    fr_call.pc = "done" =>
        IF fr_call.ok
        THEN /\ Len(frame) = Len(fr_call.old) + 1
             /\ Tail(frame) = fr_call.old
             /\ \E i \in 1..Len(fr_call.old) :
                    FrontRunCopyOf(frame[1], fr_call.old[i], fr_call.order_id)
             /\ \A i \in 1..Len(fr_call.old) : fr_call.old[i].order_id # fr_call.order_id
        ELSE frame = fr_call.old

\* the strategic front-run of <<ask 2, bid 1, ask 3>> against best prices 2, 2
\* has put the miner's copy of ask 3 in front
C12_Witness ==
    /\ fr_call.pc = "done" /\ fr_call.ok /\ fr_call.how = "strategic"
    /\ Len(frame) = 4
    /\ frame[1].trader_id = MNR1 /\ frame[1].gas = 0 /\ frame[1].order_id = 4
    /\ frame[1].trade_type = "Ask" /\ frame[1].price = 3
    /\ frame[2].trade_type = "Ask" /\ frame[2].price = 2
    /\ frame[3].trade_type = "Bid" /\ frame[3].price = 1
    /\ frame[4].trade_type = "Ask" /\ frame[4].price = 3

-----------------------------------------------------------------------------
(* C13 *)

\* the prices of the orders of side t in the frame the strategy was called on
OldPrices(t) ==
    {fr_call.old[i].price : i \in {j \in 1..Len(fr_call.old) :
                                      fr_call.old[j].trade_type = t}}

HighestBid == CHOOSE p \in OldPrices("Bid") : \A q \in OldPrices("Bid") : p >= q
LowestAsk == CHOOSE p \in OldPrices("Ask") : \A q \in OldPrices("Ask") : p <= q

\* C13: when strategic_front_run(best_bid_price, best_ask_price) has returned
\* Ok, the copy it inserted is of the highest-priced bid or of the
\* lowest-priced ask of the frame, and when the frame holds both and both are
\* profitable (best_ask_price - bid price >= 0, ask price - best_bid_price >= 0)
\* it is of the one with the larger profit.
C13_StrategicChoice ==
    (fr_call.pc = "done" /\ fr_call.how = "strategic" /\ fr_call.ok) =>
        /\ frame[1].trade_type = "Bid" => frame[1].price = HighestBid
        /\ frame[1].trade_type = "Ask" => frame[1].price = LowestAsk
        /\ (OldPrices("Bid") # {} /\ OldPrices("Ask") # {}) =>
              LET bid_profit == fr_call.best_ask_price - HighestBid
                  ask_profit == LowestAsk - fr_call.best_bid_price IN
              (bid_profit >= 0 /\ ask_profit >= 0) =>
                  /\ bid_profit > ask_profit => frame[1].trade_type = "Bid"
                  /\ ask_profit > bid_profit => frame[1].trade_type = "Ask"

-----------------------------------------------------------------------------
(* C14 *)

\* C14: every miner tick increments the block counter by exactly one, whether
\* publish_frame returned a TradeResult or not: once a tick is past its
\* publication the counter equals the number of ticks started.
C14_OneBlockPerTick ==
    mpc \in {"tax", "make_frame", "sort", "pop", "front_run", "tick"} => block_num = ticks

-----------------------------------------------------------------------------
(* C15 *)

\* C15: once the block counter exceeds num_blocks no loop starts another
\* tick: the investor loop submits no order, the maker loop draws no pair and
\* the miner loop collects no gas.
C15_LoopsExit ==
    [][block_num > num_blocks => ~(investor_task \/ MakerCheck \/ MinerCollectGas)]_vars

-----------------------------------------------------------------------------
(* C16 *)

\* orders were only appended to the players' lists and to the mempool
OrdersAppended ==
    /\ DOMAIN players' = DOMAIN players
    /\ \A id \in DOMAIN players :
          /\ Len(players'[id].orders) >= Len(players[id].orders)
          /\ SubSeq(players'[id].orders, 1, Len(players[id].orders)) = players[id].orders
    /\ Len(mempool') >= Len(mempool)
    /\ SubSeq(mempool', 1, Len(mempool)) = mempool

LedgerUnchanged ==
    /\ SameLedger(players, players')
    /\ UNCHANGED <<gas_fees, total_tax, maker_profits, block_num, books>>

\* C16: a step of the investor loop or of the maker loop changes no balance,
\* no inventory, neither book, no gas or tax total and not the block counter,
\* and only appends orders to the players' lists and to the mempool; every
\* step that changes the ledger, the books or the block counter is a step of
\* the miner loop.
C16_MinerIsOnlyWriter ==
    [][/\ (InvestorExit \/ investor_task \/ maker_task) =>
              (LedgerUnchanged /\ OrdersAppended /\ UNCHANGED frame)
       /\ ~LedgerUnchanged => miner_task]_vars

\* investor and maker orders have been submitted, and published and settled by
\* the miner: the investor has paid gas and bought from the maker
C16_Witness ==
    /\ block_num = 1
    /\ players[INV1].balance = -7 /\ players[INV1].inventory = 2
    /\ players[MKR1].inventory = -1
    /\ Len(players[MKR1].orders) = 1
    /\ books.asks = {}

-----------------------------------------------------------------------------
(* C19 *)

SideCount(orders, t) == Cardinality({i \in 1..Len(orders) : orders[i].trade_type = t})

\* C19: the maker loop has a pair to submit only for a maker whose record
\* held no order when it was drawn, and a maker's record never holds more
\* than two orders, more than one bid or more than one ask.
C19_OnePairAtATime ==
    /\ mk_pc = "bid" => players[mk_orders[1].trader_id].orders = <<>>
    /\ mk_pc = "ask" => Len(players[mk_orders[1].trader_id].orders) <= 1
    /\ \A id \in MakerIds(players) :
          /\ Len(players[id].orders) <= 2
          /\ SideCount(players[id].orders, "Bid") <= 1
          /\ SideCount(players[id].orders, "Ask") <= 1

C19_Witness ==
    /\ mk_pc = "tick"
    /\ Len(players[MKR1].orders) = 2
    /\ players[MKR1].orders[1].trade_type = "Bid"
    /\ players[MKR1].orders[2].trade_type = "Ask"
    /\ Len(mempool) = 3

-----------------------------------------------------------------------------
(* C20 *)

\* the orders on their way to the books, and the orders of the players' records
InFlight == mempool \o frame
Recorded == UNION {{<<id, i>> : i \in 1..Len(players[id].orders)} : id \in DOMAIN players}

\* C20: every order id in the mempool, the frame and the players' records was
\* issued before the next one to be issued, no two orders of the mempool and
\* the frame share an order id, no two orders of the players' records do, and
\* an order in flight carries the id of the record of its own trader only.
C20_OrderIdsUnique ==
    /\ \A i \in 1..Len(InFlight) : InFlight[i].order_id < next_order_id
    /\ \A i, j \in 1..Len(InFlight) :
          i # j => InFlight[i].order_id # InFlight[j].order_id
    /\ \A a, b \in Recorded :
          a # b => players[a[1]].orders[a[2]].order_id # players[b[1]].orders[b[2]].order_id
    /\ \A a \in Recorded :
          /\ players[a[1]].orders[a[2]].order_id < next_order_id
          /\ \A i \in 1..Len(InFlight) :
                InFlight[i].order_id = players[a[1]].orders[a[2]].order_id
                    => InFlight[i].trader_id = a[1]

\* the miner's front-run copy (id 3) stands in the frame ahead of the orders
\* 1 and 2 it was drawn from
C20_Witness ==
    /\ Len(frame) = 3
    /\ frame[1].trader_id = MNR1 /\ frame[1].order_id = 3
    /\ {frame[2].order_id, frame[3].order_id} = {1, 2}
    /\ Held(players, MNR1, 3) # {}

-----------------------------------------------------------------------------
(* C17 *)

\* C17: no thread, whatever ClearingHouse operation it is in, holds two of
\* the ClearingHouse's locks (player map, gas fees, maker profits, tax total)
\* at the same time.
C17_OneLockAtATime ==
    \A t \in Threads : Cardinality(HeldBy(t) \cap HouseLocks) <= 1

-----------------------------------------------------------------------------
(* C18 *)

\* C18: a loop that is asleep or waiting for its timer holds neither the
\* ClearingHouse players lock nor a Book lock.
C18_NoLockWhileSuspended ==
    \A t \in Threads : At(t).k = "sleep" => HeldBy(t) \cap {"players", "book"} = {}

\* the investor loop sleeps at the end of its tick and the miner loop in the
\* middle of its own, while the maker loop is inside new_order
C18_Witness ==
    /\ At("investor").k = "sleep"
    /\ At("miner").k = "sleep" /\ lpc["miner"] < Len(miner_locks)
    /\ lock_owner["players"] = "maker"


-----------------------------------------------------------------------------
(* C21 *)

\* C21: every order the investor loop submits satisfies the Order
\* invariants: a LimitOrder has p_low = p_high = 0 and price > 0, a FlowOrder
\* has p_low < p_high and price = 0.
C21_InvestorOrderInvariants ==
    h_call.op = "investor_task" =>
        \A i \in 1..Len(h_call.orders) :
            LET o == h_call.orders[i] IN
            /\ o.ex_type = "LimitOrder" => o.p_low = 0 /\ o.p_high = 0 /\ o.price > 0
            /\ o.ex_type = "FlowOrder" => o.p_low < o.p_high /\ o.price = 0

-----------------------------------------------------------------------------
(* C22 *)

RegOps == {"reg_investor", "reg_maker", "reg_miner", "reg_n_investors", "reg_n_makers"}

\* the ids of the players handed to the call
RegisteredIds == {h_call.orders[i].trader_id : i \in 1..Len(h_call.orders)}

\* C22: a reg_ operation inserts a player only under an id not yet
\* registered: every record that existed is unchanged in kind, balance,
\* inventory and orders, a new id gets the first player handed in under it,
\* and num_players is the number of distinct ids registered.
C22_RegisterKeepsExisting ==
    h_call.op \in RegOps =>
        /\ \A id \in DOMAIN h_call.players : players[id] = h_call.players[id]
        /\ DOMAIN players = DOMAIN h_call.players \cup RegisteredIds
        /\ \A id \in RegisteredIds \ DOMAIN h_call.players :
              \E i \in 1..Len(h_call.orders) :
                 /\ h_call.orders[i].trader_id = id
                 /\ \A j \in 1..(i - 1) : h_call.orders[j].trader_id # id
                 /\ players[id] = h_call.orders[i].player
        /\ h_call.ret = Cardinality(DOMAIN h_call.players \cup RegisteredIds)

\* two investors with different balances are handed in under one new id,
\* after another call that left the investor's record as it was
C22_Witness ==
    /\ h_call.op = "reg_n_investors"
    /\ h_call.orders[1].trader_id = INV2 /\ h_call.orders[2].trader_id = INV2
    /\ h_call.orders[1].player # h_call.orders[2].player
    /\ INV2 \notin DOMAIN h_call.players
    /\ h_count = 2
    /\ players[INV1].player_type = "Investor"

-----------------------------------------------------------------------------
(* C23 *)

\* the orders of the call that name the trader, in the order of the call
OrdersNaming(id) ==
    LET Names(o) == o.trader_id = id IN SelectSeq(h_call.orders, Names)

\* apart from the order lists, the player has the record it had
SameAccount(before, after) ==
    /\ after.player_type = before.player_type
    /\ after.maker_type = before.maker_type
    /\ after.balance = before.balance
    /\ after.inventory = before.inventory

\* C23: new_order and new_orders append each order to the list of the player
\* its trader_id names and to no other list, change no balance and no
\* inventory, and answer with an error exactly when a named trader is not
\* registered.
C23_NewOrderAppends ==
    h_call.op \in {"new_order", "new_orders"} =>
        /\ DOMAIN players = DOMAIN h_call.players
        /\ \A id \in DOMAIN players : SameAccount(h_call.players[id], players[id])
        /\ h_call.ok <=> \A i \in 1..Len(h_call.orders) :
                            h_call.orders[i].trader_id \in DOMAIN h_call.players
        /\ \A id \in DOMAIN players :
              \E k \in 0..Len(OrdersNaming(id)) :
                 /\ players[id].orders =
                       h_call.players[id].orders \o SubSeq(OrdersNaming(id), 1, k)
                 /\ h_call.ok => k = Len(OrdersNaming(id))

\* new_orders has added the orders of two traders, one of whom held an order
C23_Witness ==
    /\ h_call.op = "new_orders" /\ h_call.ok
    /\ h_call.orders[1].trader_id # h_call.orders[2].trader_id
    /\ \E id \in DOMAIN players : Len(players[id].orders) = 2

-----------------------------------------------------------------------------
(* C24 *)

\* the trader's orders before the call, without the one the call names
WithoutOrder(orders, o_id) ==
    LET Other(o) == o.order_id # o_id IN SelectSeq(orders, Other)

\* the trader of the call was registered and held the order of the call
CancelFinds ==
    /\ h_call.id \in DOMAIN h_call.players
    /\ \E i \in 1..Len(h_call.players[h_call.id].orders) :
          h_call.players[h_call.id].orders[i].order_id = h_call.order_id

\* C24: cancel_player_order removes exactly the order with the given id from
\* the given trader's list and answers Ok; when the trader or the order is
\* absent it answers with an error and every player's record is unchanged.
C24_CancelRemovesOne ==
    h_call.op = "cancel_player_order" =>
        /\ h_call.ok <=> CancelFinds
        /\ ~h_call.ok => players = h_call.players
        /\ h_call.ok =>
              /\ DOMAIN players = DOMAIN h_call.players
              /\ \A id \in DOMAIN players \ {h_call.id} : players[id] = h_call.players[id]
              /\ SameAccount(h_call.players[h_call.id], players[h_call.id])
              /\ players[h_call.id].orders =
                    WithoutOrder(h_call.players[h_call.id].orders, h_call.order_id)
              /\ Len(players[h_call.id].orders) =
                    Len(h_call.players[h_call.id].orders) - 1

\* the first of a trader's two orders has been cancelled
C24_Witness ==
    /\ h_call.op = "cancel_player_order" /\ h_call.ok
    /\ Len(h_call.players[h_call.id].orders) = 2
    /\ h_call.players[h_call.id].orders[1].order_id = h_call.order_id

-----------------------------------------------------------------------------
(* C25 *)

\* the player of the call, before it
Before == h_call.players[h_call.id]

\* every player but the one of the call has the record it had
OthersUntouched ==
    /\ DOMAIN players = DOMAIN h_call.players
    /\ \A id \in DOMAIN players \ {h_call.id} : players[id] = h_call.players[id]

\* C25: update_player on a registered id adds dBal to the balance and dInv to
\* the inventory in one critical section (a get_bal_inv of another thread
\* sees both applied or neither), returns the new (balance, inventory) and
\* changes no other player; on an unregistered id it returns None and changes
\* nothing.  update_player_bal and update_player_inv do the same for one
\* field and return its new value.
C25_UpdatePlayerAtomic ==
    /\ h_call.op = "update_player" /\ h_call.seen # <<>> =>
          \/ h_call.seen = <<Before.balance, Before.inventory>>
          \/ h_call.seen = <<Before.balance + h_call.bal, Before.inventory + h_call.inv>>
    /\ h_call.op = "update_player" /\ h_call.pc = "done" =>
          /\ h_call.ok <=> h_call.id \in DOMAIN h_call.players
          /\ ~h_call.ok => players = h_call.players /\ h_call.ret = <<>>
          /\ h_call.ok =>
                /\ OthersUntouched
                /\ players[h_call.id] =
                      [Before EXCEPT !.balance = @ + h_call.bal,
                                     !.inventory = @ + h_call.inv]
                /\ h_call.ret = <<Before.balance + h_call.bal,
                                  Before.inventory + h_call.inv>>
    /\ h_call.op = "update_player_bal" =>
          /\ h_call.ok <=> h_call.id \in DOMAIN h_call.players
          /\ ~h_call.ok => players = h_call.players
          /\ h_call.ok =>
                /\ OthersUntouched
                /\ players[h_call.id] = [Before EXCEPT !.balance = @ + h_call.bal]
                /\ h_call.ret = Before.balance + h_call.bal
    /\ h_call.op = "update_player_inv" =>
          /\ h_call.ok <=> h_call.id \in DOMAIN h_call.players
          /\ ~h_call.ok => players = h_call.players
          /\ h_call.ok =>
                /\ OthersUntouched
                /\ players[h_call.id] = [Before EXCEPT !.inventory = @ + h_call.inv]
                /\ h_call.ret = Before.inventory + h_call.inv

\* update_player has returned for a player whose balance and inventory were
\* not 0, and another thread has read the player since
C25_Witness ==
    /\ h_call.op = "update_player" /\ h_call.pc = "done" /\ h_call.ok
    /\ Before.balance # 0 /\ Before.inventory # 0
    /\ h_call.seen = h_call.ret

-----------------------------------------------------------------------------
(* C26 *)

\* C26: update_player adds dBal to maker_profits[t] exactly when the updated
\* player is a Maker of sub-type t; the entries of the other sub-types, and
\* every entry when the id is an investor's, a miner's or unregistered, are
\* unchanged.
C26_MakerProfits ==
    h_call.op = "update_player" /\ h_call.pc = "done" =>
        \A t \in MakerT :
            maker_profits[t] =
                IF /\ h_call.id \in DOMAIN h_call.players
                   /\ Before.player_type = "Maker"
                   /\ Before.maker_type = t
                THEN h_call.maker_profits[t] + h_call.bal
                ELSE h_call.maker_profits[t]

\* a RiskAverse maker has been paid after an Aggressive one
C26_Witness ==
    /\ h_call.op = "update_player" /\ h_call.pc = "done"
    /\ h_call.id = MKR2
    /\ h_call.maker_profits["Aggressive"] # 0
    /\ maker_profits["RiskAverse"] # 0

-----------------------------------------------------------------------------
(* C27 *)

\* the players that were Makers when the call was made
MakersBefore == {id \in DOMAIN h_call.players : h_call.players[id].player_type = "Maker"}

\* C27: tax_makers(rate) subtracts |inventory| * rate from the balance of
\* every Maker, leaves every inventory and every other player's balance
\* unchanged, and increases the tax total by exactly the sum subtracted.
C27_TaxMakers ==
    h_call.op = "tax_makers" =>
        /\ DOMAIN players = DOMAIN h_call.players
        /\ \A id \in MakersBefore :
              players[id] =
                 [h_call.players[id] EXCEPT
                     !.balance = @ - Abs(h_call.players[id].inventory) * h_call.arg]
        /\ \A id \in DOMAIN players \ MakersBefore : players[id] = h_call.players[id]
        /\ total_tax - h_call.total_tax =
              SumBalance(h_call.players, MakersBefore) - SumBalance(players, MakersBefore)

\* makers short and long have been taxed at a positive rate, after an
\* earlier tax
C27_Witness ==
    /\ h_call.op = "tax_makers" /\ h_call.arg > 0
    /\ h_call.total_tax > 0
    /\ \E id \in MakersBefore : h_call.players[id].inventory < 0
    /\ \E id \in MakersBefore : h_call.players[id].inventory > 0

-----------------------------------------------------------------------------
(* C28 *)

\* C28: liquidate(fund_val) adds inventory * fund_val to the balance of every
\* player, of every kind and for inventories of either sign, and sets every
\* inventory to 0.
C28_Liquidate ==
    h_call.op = "liquidate" =>
        /\ DOMAIN players = DOMAIN h_call.players
        /\ \A id \in DOMAIN players :
              players[id] =
                 [h_call.players[id] EXCEPT
                     !.balance = @ + h_call.players[id].inventory * h_call.arg,
                     !.inventory = 0]

\* the maker with balance 500 and inventory -2 ends with balance 300 and
\* inventory 0 at fund_val 100, next to a miner holding inventory
C28_Witness ==
    /\ h_call.op = "liquidate" /\ h_call.arg = 100
    /\ h_call.players[MKR1].balance = 500 /\ h_call.players[MKR1].inventory = -2
    /\ players[MKR1].balance = 300 /\ players[MKR1].inventory = 0
    /\ h_call.players[MNR1].inventory > 0

-----------------------------------------------------------------------------
(* C29 *)

\* price-time priority on side t: a better price comes first, and of two
\* orders of one price the one inserted earlier
PriceTime(book, t) ==
    \A i, j \in 1..Len(book) :
        i < j =>
            \/ worse(book[j], book[i], t)
            \/ /\ book[i].price = book[j].price
               /\ bk_call.entered[<<t, book[i].order_id>>] <
                     bk_call.entered[<<t, book[j].order_id>>]

\* C29: after any sequence of Book insert, cancel and update operations the
\* bid book is sorted by descending price, the ask book by ascending price,
\* and orders of equal price appear in insertion order.
C29_PriceTimePriority ==
    PriceTime(bids_book, "Bid") /\ PriceTime(asks_book, "Ask")

\* an Update has moved the older of two bids behind the younger, at its price
C29_Witness ==
    /\ bk_call.op = "update" /\ bk_call.found
    /\ Len(bids_book) = 2
    /\ bids_book[1].price = bids_book[2].price
    /\ bids_book[2].order_id = bk_call.order.order_id
    /\ bids_book[2].order_id < bids_book[1].order_id

-----------------------------------------------------------------------------
(* C30 *)

\* the order that came in, the opposite book and its own book as it found
\* them, and as it left them
Incoming == bk_call.order
OppositeBefore == IF Incoming.trade_type = "Bid" THEN bk_call.asks ELSE bk_call.bids
OwnBefore == IF Incoming.trade_type = "Bid" THEN bk_call.bids ELSE bk_call.asks
OppositeAfter == IF Incoming.trade_type = "Bid" THEN asks_book ELSE bids_book
OwnAfter == IF Incoming.trade_type = "Bid" THEN bids_book ELSE asks_book

\* the volume of the first k PlayerUpdates
RECURSIVE Traded(_)
Traded(k) == IF k = 0 THEN 0 ELSE bk_call.updates[k].volume + Traded(k - 1)

\* C30: in a CDA cross of an incoming Enter order every PlayerUpdate has the
\* resting order's price and the volume min(incoming remaining, resting
\* remaining); an order whose price does not cross produces no trade; and
\* what is left of the incoming order rests in its own book.
C30_CdaCross ==
    bk_call.op = "cross" =>
        LET n == Len(bk_call.updates)
            residual == Incoming.quantity - Traded(n) IN
        /\ n <= Len(OppositeBefore)
        /\ \A k \in 1..n :
              /\ crosses(Incoming, OppositeBefore[k])
              /\ bk_call.updates[k].price = OppositeBefore[k].price
              /\ bk_call.updates[k].volume =
                    Min(Incoming.quantity - Traded(k - 1), OppositeBefore[k].quantity)
        /\ (OppositeBefore = <<>> \/ ~crosses(Incoming, OppositeBefore[1])) =>
              n = 0 /\ OppositeAfter = OppositeBefore
        /\ residual > 0 =>
              /\ Len(OwnAfter) = Len(OwnBefore) + 1
              /\ \E i \in 1..Len(OwnAfter) :
                    OwnAfter[i] = [Incoming EXCEPT !.quantity = residual]
              /\ OppositeAfter = <<>> \/ ~crosses(Incoming, OppositeAfter[1])
        /\ residual = 0 => OwnAfter = OwnBefore

\* bid 95 x 2, then ask 90 x 5: one trade at 95 for 2, and ask 90 x 3 rests
C30_Witness ==
    /\ bk_call.op = "cross"
    /\ Len(bk_call.bids) = 1
    /\ bk_call.bids[1].price = 95 /\ bk_call.bids[1].quantity = 2
    /\ Incoming.trade_type = "Ask" /\ Incoming.price = 90 /\ Incoming.quantity = 5
    /\ Len(bk_call.updates) = 1
    /\ bk_call.updates[1].price = 95 /\ bk_call.updates[1].volume = 2
    /\ bids_book = <<>>
    /\ Len(asks_book) = 1
    /\ asks_book[1].price = 90 /\ asks_book[1].quantity = 3

-----------------------------------------------------------------------------
(* C31 *)

\* thread t is at a lock() of a Mutex that is taken
Waiting(t) == At(t).k = "acq" /\ lock_owner[At(t).l] # "free"

\* C31: no interleaving of the three loops deadlocks on the ClearingHouse
\* locks and the block-counter lock: whenever a loop waits for a lock, its
\* holder is not waiting itself and can go on to release it.
C31_NoDeadlock ==
    \A t \in Threads : Waiting(t) => ~Waiting(lock_owner[At(t).l])

\* the investor and the maker both wait for the players lock while the miner
\* holds it together with maker_profits
C31_Witness ==
    /\ Waiting("investor") /\ Waiting("maker")
    /\ At("investor").l = "players" /\ At("maker").l = "players"
    /\ lock_owner["players"] = "miner" /\ lock_owner["maker_profits"] = "miner"

-----------------------------------------------------------------------------
(* C32 *)

\* C32: under fair scheduling of the three loops the block counter
\* eventually exceeds num_blocks, whatever orders are submitted and whether
\* or not any of them cross.
C32_EventuallyShutdown == <>(block_num > num_blocks)

-----------------------------------------------------------------------------
(* C33 *)

\* C33: every step of update_house is one acquisition of the players lock, so
\* a reader can take the lock between any two of them; whenever it does while
\* a CDA or FBA TradeResults is being settled, the balances and the
\* inventories it reads sum to what they summed to when the settlement began.
C33_ReaderSeesWholeFills ==
    (/\ results.auction_type \in {"CDA", "FBA"}
     /\ pc \in {"loop", "bidder_vol", "asker", "asker_vol", "next"})
        => Totals(players) = uh_pre

-----------------------------------------------------------------------------
(* C34 *)

\* the orders of s that their trader's ClearingHouse record does not hold
Unregistered(s) ==
    {i \in 1..Len(s) : Held(players, s[i].trader_id, s[i].order_id) = {}}

\* C34: every order of the frame the miner is about to publish is in its
\* trader's ClearingHouse order list, the miner's own front-run order
\* included, and so is every order that was pushed to the mempool.
C34_RegisteredBeforePublished ==
    /\ Unregistered(mempool) = {}
    /\ mpc \in {"tick", "apply", "publish"} => Unregistered(frame) = {}

\* a frame about to be published with the miner's front-run order ahead of a
\* maker's order and an investor's
C34_Witness ==
    /\ mpc = "publish"
    /\ Len(frame) = 3
    /\ frame[1].trader_id = MNR1
    /\ \E i, j \in 2..3 : frame[i].trader_id = MKR1 /\ frame[j].trader_id \in {INV1, INV2}

-----------------------------------------------------------------------------
(* C35 *)

\* how many times order id has been charged its gas
TimesCharged(id) == IF id \in DOMAIN charged THEN charged[id] ELSE 0

FrameIds == {frame[i].order_id : i \in 1..Len(frame)}

\* C35: no order is charged its gas twice; the orders of a frame are
\* uncharged from the make_frame that sealed them to the collect_gas of the
\* next tick, which charges each of them once; every order that has been
\* published was charged once.  A make_frame that finds the mempool empty
\* leaves the emptied frame, so the next tick charges nobody again.
C35_GasChargedOnce ==
    /\ \A id \in DOMAIN charged : charged[id] = 1
    /\ mpc \in {"front_run", "tick", "apply"} => \A id \in FrameIds : TimesCharged(id) = 0
    /\ mpc = "publish" => \A id \in FrameIds : TimesCharged(id) = 1
    /\ \A id \in books.bids \cup books.asks : TimesCharged(id) = 1

\* the second tick's make_frame found the mempool empty and left the frame
\* as publish_frame had left it, the orders of the first frame charged once
C35_Witness ==
    /\ ticks = 2
    /\ mpc = "tick"
    /\ mempool = <<>> /\ frame = <<>>
    /\ Cardinality(DOMAIN charged) = 3

-----------------------------------------------------------------------------
(* C36 *)

\* the trader ids of the orders of s
TradersOf(s) == {s[i].trader_id : i \in 1..Len(s)}

\* C36: while the three loops run, the registered players are the ones
\* init_simulation registered, and every order of the mempool and of the
\* frame names one of them.
C36_PlayersFixed ==
    /\ DOMAIN players = {INV1, INV2, MKR1, MNR1}
    /\ TradersOf(mempool) \cup TradersOf(frame) \subseteq DOMAIN players

\* two ticks have run, a fill has been settled on the miner's front-run
\* order, gas and tax have been charged, and an investor's order is sealed
\* for the next block
C36_Witness ==
    /\ ticks = 2 /\ mpc = "tick"
    /\ block_num = 1
    /\ players[MNR1].inventory = 2
    /\ total_tax > 0
    /\ TradersOf(frame) \cap {INV1, INV2} # {}

-----------------------------------------------------------------------------
(* C37 *)

\* the two candidates of strategic_front_run: the first bid and the last ask
\* of the frame in ascending price
BidCandidate == CHOOSE p \in OldPrices("Bid") : \A q \in OldPrices("Bid") : p <= q
AskCandidate == CHOOSE p \in OldPrices("Ask") : \A q \in OldPrices("Ask") : p >= q

BothNegative ==
    /\ OldPrices("Bid") # {} /\ OldPrices("Ask") # {}
    /\ fr_call.best_ask_price - BidCandidate < 0
    /\ AskCandidate - fr_call.best_bid_price < 0

-----------------------------------------------------------------------------
(* C38 *)

\* C38: when new_orders(list) has returned Err because an order of the list
\* names an unregistered trader, no order of the list has been appended: the
\* players' records are what they were before the call.
C38_NewOrdersAllOrNone ==
    (h_call.pc = "done" /\ h_call.op = "new_orders" /\ ~h_call.ok) =>
        players = h_call.players

-----------------------------------------------------------------------------
(* C39 *)

\* the call that has just returned is liquidate
Liquidated == h_call.pc = "done" /\ h_call.op = "liquidate"

\* C39: a liquidate that follows a liquidate, at whatever fund_val, changes
\* no balance, no inventory and no maker_profits entry.
C39_LiquidateIdempotent ==
    [][(Liquidated /\ Liquidated' /\ h_count' = h_count + 1) =>
          /\ players' = players
          /\ maker_profits' = maker_profits]_vars

\* the second of two liquidate calls has returned: both makers were paid
\* at fund_val 100 by the first, and the second left the house as it found it
C39_Witness ==
    /\ Liquidated /\ h_count = 2
    /\ h_call.players = players /\ h_call.maker_profits = maker_profits
    /\ players[MKR1].balance = 600 /\ maker_profits["Aggressive"] = 100
    /\ players[MKR2].balance = 355 /\ maker_profits["RiskAverse"] = 300

-----------------------------------------------------------------------------
(* C40 *)

\* the registered players of type t
PlayersOfType(t) == {id \in DOMAIN players : players[id].player_type = t}

\* C40: when init_simulation has returned, the ClearingHouse holds
\* num_investors investors, num_makers makers and one miner.
C40_RegistersConfiguredPlayers ==
    (h_call.pc = "done" /\ h_call.op = "init_simulation") =>
        /\ Cardinality(PlayersOfType("Investor")) = h_call.arg.num_investors
        /\ Cardinality(PlayersOfType("Maker")) = h_call.arg.num_makers
        /\ Cardinality(PlayersOfType("Miner")) = 1
====
